---- MODULE Spec2Model ----
(***************************************************************************)
(* Werewolf game orchestration engine (NINEMINEsigma/Agent-Wolves-Game).   *)
(*                                                                         *)
(* The module models                                                       *)
(*   - the state store       src/src/game_state.py      (GameState)        *)
(*   - the victory checker   src/src/victory_checker.py (VictoryChecker)   *)
(*   - the witch             src/src/agents/role_agents/witch_agent.py,    *)
(*                           src/src/agents/tools/witch_tools.py,          *)
(*                           src/src/roles/witch.py                        *)
(*   - the voting system     src/src/voting_system.py   (VotingSystem)     *)
(*   - the engine main loop  src/src/game_engine.py (WerewolfGameEngine)   *)
(*                                                                         *)
(* Three specifications are defined over the same variables:               *)
(*   SpecStore  the state store driven directly through its operations     *)
(*   SpecWitch  the witch driven directly through every operation that     *)
(*              touches her potions                                        *)
(*   Spec       a whole game driven by WerewolfGameEngine.start_game       *)
(*                                                                         *)
(* Text produced by the language model is opaque to the engine; a call to  *)
(* the model is an input drawn with \E from the outcomes its parser can    *)
(* distinguish.  The Chinese death causes of the source are written        *)
(* "werewolf_kill", "witch_poison" and "vote_exile".                       *)
(***************************************************************************)
EXTENDS Integers, Sequences, FiniteSets, TLC

\* ------------------------------------------------------------------------
\* Bounds of the model
\* ------------------------------------------------------------------------

\* number of seats of a game (players 1..NumPlayers)
NumPlayers == 3

\* events after which SpecStore stops appending to the event log
MaxHistory == 5

\* events after which Spec stops starting a new phase of a game
MaxGameHistory == 13

\* largest max_rounds setting a game is configured with
MaxRoundLimit == 1

\* readings of the wall clock (datetime.now()) between 1 and MaxClock
MaxClock == 2

\* memory_config of the agents, scaled down: the caps of the memory streams
max_memory_events == 1
night_discussion_memory_limit == 2
night_thinking_memory_limit == 1

\* ------------------------------------------------------------------------
\* Vocabulary
\* ------------------------------------------------------------------------

PlayerIds == 1..NumPlayers

Roles == {"villager", "werewolf", "seer", "witch"}

\* GamePhase (game_state.py:13-20)
GamePhase == {"preparation", "night", "day", "discussion", "voting", "game_end"}

Causes == {"werewolf_kill", "witch_poison", "vote_exile"}

\* Python None for an id / a round / a string
NoPlayer == 0
NoRound == 0
None == "none"

VARIABLES
    game_state,      \* GameState: the state store
    ret,             \* return value of the last state store operation
    pc,              \* position of start_game
    players,         \* WerewolfGameEngine.players: the role of every seat
    is_running,      \* WerewolfGameEngine.is_running
    agent_alive,     \* BaseAIAgent.is_alive of every seat
    mode,            \* AgentFactory.mode: "agent" | "traditional"
    witch,           \* the witch's private fields
    vision_results,  \* the seer's vision_results
    werewolf_result, \* result of _handle_werewolf_kill of this night
    witch_result,    \* result of _handle_witch_action of this night
    vote_result,     \* result of the last conduct_full_vote
    night,           \* _execute_night_deaths: deaths still to apply, deaths applied
    vote_tasks,      \* collect_votes: the vote tasks handed to asyncio.gather
    thinking_tasks,  \* conduct_end_of_day_thinking: the tasks handed to asyncio.gather
    game_memory,     \* BaseAIAgent.game_memory of every seat
    thinking_result  \* _run_voting_phase: what conduct_end_of_day_thinking gave

vars == <<game_state, ret, pc, players, is_running, agent_alive, mode, witch,
          vision_results, werewolf_result, witch_result, vote_result, night,
          vote_tasks, thinking_tasks, game_memory, thinking_result>>

engineVars == <<pc, players, is_running, agent_alive, mode, witch, vision_results,
                werewolf_result, witch_result, vote_result, night, vote_tasks, thinking_tasks,
                game_memory, thinking_result>>

\* ------------------------------------------------------------------------
\* Sequence helpers (Python list operations)
\* ------------------------------------------------------------------------

\* set of the elements of a list
Range(s) == {s[i] : i \in 1..Len(s)}

\* list.remove(x): drops the first occurrence of x
RECURSIVE Remove(_, _)
Remove(s, x) ==
    IF s = <<>> THEN <<>>
    ELSE IF Head(s) = x THEN Tail(s)
    ELSE <<Head(s)>> \o Remove(Tail(s), x)

\* [y for y in s if y != x]
RECURSIVE Without(_, _)
Without(s, x) ==
    IF s = <<>> THEN <<>>
    ELSE IF Head(s) = x THEN Without(Tail(s), x)
    ELSE <<Head(s)>> \o Without(Tail(s), x)

\* number of elements of s that are in the set S
RECURSIVE CountIn(_, _)
CountIn(s, S) ==
    IF s = <<>> THEN 0
    ELSE (IF Head(s) \in S THEN 1 ELSE 0) + CountIn(Tail(s), S)

\* ------------------------------------------------------------------------
\* State store (game_state.py)
\* ------------------------------------------------------------------------

\* GameState.__init__: round 1, phase preparation, no players, empty log;
\* voting_results holds the entry collect_votes wrote last
GameStateInit(maxRounds) ==
    [ current_round |-> 1,
      current_phase |-> "preparation",
      max_rounds    |-> maxRounds,
      players       |-> <<>>,
      alive_players |-> <<>>,
      dead_players  |-> <<>>,
      game_history  |-> <<>>,
      game_winner   |-> None,
      voting_results |-> [vote_counts |-> <<>>, candidates |-> <<>>,
                          total_voters |-> 0] ]

\* one entry of game_history; round and phase are stamped by log_event
Event(g, type, player, target, detail) ==
    [ event_type |-> type, player_id |-> player, target_id |-> target,
      round |-> g.current_round, phase |-> g.current_phase, detail |-> detail ]

\* GameState.log_event
log_event(g, type, player, target, detail) ==
    [g EXCEPT !.game_history = Append(@, Event(g, type, player, target, detail))]

\* GameState.has_round_limit
has_round_limit(g) == g.max_rounds # NoRound

\* GameState.get_player_by_id: the id is known to the store
KnownPlayer(g, id) == id \in 1..Len(g.players)

\* the role a player was added with
RoleOf(g, id) == g.players[id].role

\* GameState.add_player: the players are added with ids 1, 2, ...
add_player(g, role) ==
    LET id == Len(g.players) + 1
        g1 == [g EXCEPT
                 !.players = Append(@, [ id |-> id, role |-> role,
                                         is_alive |-> TRUE,
                                         death_round |-> NoRound,
                                         death_cause |-> None ]),
                 !.alive_players = Append(@, id)]
    IN  log_event(g1, "player_added", id, NoPlayer, role)

\* GameState.kill_player, return value
\* (mutant: every player the store knows can be killed)
kill_player_ok_known(g, id) == id \in 1..Len(g.players)

kill_player_ok(g, id) == id \in Range(g.alive_players)

\* GameState.kill_player, resulting store (mutant: the player stays listed alive)
kill_player_keeps_alive(g, id, cause) ==
    IF ~kill_player_ok(g, id) THEN g
    ELSE LET g1 == [g EXCEPT
                      !.players[id].is_alive = FALSE,
                      !.players[id].death_round = g.current_round,
                      !.players[id].death_cause = cause,
                      !.dead_players = Append(@, id)]
         IN  log_event(g1, "player_death", id, NoPlayer, cause)

kill_player(g, id, cause) ==
    IF ~kill_player_ok(g, id) THEN g
    ELSE LET g1 == [g EXCEPT
                      !.players[id].is_alive = FALSE,
                      !.players[id].death_round = g.current_round,
                      !.players[id].death_cause = cause,
                      !.alive_players = Remove(@, id),
                      !.dead_players = Append(@, id)]
         IN  log_event(g1, "player_death", id, NoPlayer, cause)

\* GameState.revive_player, return value
\* (mutant: every dead player can be revived)
revive_player_ok_any_dead(g, id) == id \in Range(g.dead_players)

revive_player_ok(g, id) ==
    /\ id \in Range(g.dead_players)
    /\ g.players[id].death_round = g.current_round

\* GameState.revive_player, resulting store
\* (mutant: the cause of death stays on the record)
revive_player_keeps_cause(g, id) ==
    IF ~revive_player_ok(g, id) THEN g
    ELSE LET g1 == [g EXCEPT
                      !.players[id].is_alive = TRUE,
                      !.players[id].death_round = NoRound,
                      !.dead_players = Remove(@, id),
                      !.alive_players = Append(@, id)]
         IN  log_event(g1, "player_revived", id, NoPlayer, None)

revive_player(g, id) ==
    IF ~revive_player_ok(g, id) THEN g
    ELSE LET g1 == [g EXCEPT
                      !.players[id].is_alive = TRUE,
                      !.players[id].death_round = NoRound,
                      !.players[id].death_cause = None,
                      !.dead_players = Remove(@, id),
                      !.alive_players = Append(@, id)]
         IN  log_event(g1, "player_revived", id, NoPlayer, None)

\* GameState.advance_phase, the phase it moves to
NextPhase(p) ==
    CASE p = "preparation" -> "night"
      [] p = "night"       -> "day"
      [] p = "day"         -> "discussion"
      [] p = "discussion"  -> "voting"
      [] p = "voting"      -> "night"
      [] OTHER             -> p

\* GameState.advance_phase (mutant: the round is counted on every transition)
advance_phase_counts_all(g) ==
    LET g1 == [g EXCEPT
                 !.current_round = @ + 1,
                 !.current_phase = NextPhase(g.current_phase)]
    IN  log_event(g1, "phase_change", NoPlayer, NoPlayer, g.current_phase)

advance_phase(g) ==
    LET g1 == [g EXCEPT
                 !.current_round = IF g.current_phase = "voting" THEN @ + 1 ELSE @,
                 !.current_phase = NextPhase(g.current_phase)]
    IN  log_event(g1, "phase_change", NoPlayer, NoPlayer, g.current_phase)

\* GameState.record_night_action (the game_history entry)
record_night_action(g, player, action_type, target) ==
    log_event(g, "night_action", player, target, action_type)

\* GameState.get_faction_counts
get_faction_counts(g) ==
    [ villagers   |-> Cardinality({i \in Range(g.alive_players) :
                         RoleOf(g, i) \in {"villager", "seer", "witch"}}),
      werewolves  |-> Cardinality({i \in Range(g.alive_players) :
                         RoleOf(g, i) = "werewolf"}),
      total_alive |-> Len(g.alive_players) ]

\* export_state, lines 467-473: what a snapshot says of a speech event; the
\* time it carries is the event's, which the model leaves out
\* (mutant: the speech is stamped with the time of the call)
speech_record_stamped(event, now) ==
    [speaker_id |-> event.player_id, timestamp |-> now]

speech_record(event, now) ==
    [speaker_id |-> event.player_id]

\* export_state, lines 463-476: the speeches of the current round
recent_speeches(g, now) ==
    LET said(e) == e.event_type = "speech" /\ e.round = g.current_round
        spoken  == SelectSeq(g.game_history, said)
    IN  [k \in 1..Len(spoken) |-> speech_record(spoken[k], now)]

\* export_state, lines 483-489: the record of a player given to an agent
\* (mutant: the player's record of the store, with a death_cause of None for
\* the living)
safe_player_copied(player) ==
    [player EXCEPT !.death_cause = IF ~player.is_alive THEN @ ELSE None]

safe_player(player) ==
    [ id          |-> player.id,
      is_alive    |-> player.is_alive,
      death_round |-> player.death_round,
      death_cause |-> IF ~player.is_alive THEN player.death_cause ELSE None ]

\* GameState.export_state(hide_roles_from_ai); now is what datetime.now() gives
export_state(g, hide_roles_from_ai, now) ==
    IF hide_roles_from_ai
    THEN LET players_safe == [k \in 1..Len(g.players) |-> safe_player(g.players[k])]
             alive(p)     == p.is_alive
             dead(p)      == ~p.is_alive
         IN  [ current_round   |-> g.current_round,
               current_phase   |-> g.current_phase,
               players         |-> players_safe,
               alive_players   |-> SelectSeq(players_safe, alive),
               dead_players    |-> SelectSeq(players_safe, dead),
               recent_speeches |-> recent_speeches(g, now),
               faction_counts  |-> get_faction_counts(g),
               timestamp       |-> now ]
    ELSE [ current_round   |-> g.current_round,
           current_phase   |-> g.current_phase,
           players         |-> g.players,
           alive_players   |-> [k \in 1..Len(g.alive_players) |->
                                  g.players[g.alive_players[k]]],
           dead_players    |-> [k \in 1..Len(g.dead_players) |->
                                  g.players[g.dead_players[k]]],
           game_history    |-> g.game_history,
           recent_speeches |-> recent_speeches(g, now),
           voting_results  |-> g.voting_results,
           game_winner     |-> g.game_winner,
           faction_counts  |-> get_faction_counts(g),
           timestamp       |-> now ]

\* ------------------------------------------------------------------------
\* Victory checker (victory_checker.py)
\* ------------------------------------------------------------------------

\* VictoryChecker.count_alive_by_faction: one pass over alive_players
\* (mutant: seer and witch are not counted into the villager faction)
count_alive_by_faction_plain(g) ==
    LET roleSeq == [i \in 1..Len(g.alive_players) |-> RoleOf(g, g.alive_players[i])]
    IN  [ villagers        |-> CountIn(roleSeq, {"villager"}),
          villager_faction |-> CountIn(roleSeq, {"villager"}),
          werewolves       |-> CountIn(roleSeq, {"werewolf"}),
          total_alive      |-> Len(roleSeq) ]

count_alive_by_faction(g) ==
    LET roleSeq == [i \in 1..Len(g.alive_players) |-> RoleOf(g, g.alive_players[i])]
    IN  [ villagers        |-> CountIn(roleSeq, {"villager"}),
          villager_faction |-> CountIn(roleSeq, {"villager"})
                               + CountIn(roleSeq, {"seer", "witch"}),
          werewolves       |-> CountIn(roleSeq, {"werewolf"}),
          total_alive      |-> Len(roleSeq) ]

\* VictoryChecker.is_game_over: the winner, or None while the game continues
is_game_over(g) ==
    LET c == count_alive_by_faction(g)
    IN  IF c.villager_faction = 0 /\ c.werewolves > 0 THEN "werewolves"
        ELSE IF c.werewolves = 0 /\ c.villager_faction > 0 THEN "villagers"
        ELSE IF c.total_alive = 0 THEN "draw"
        ELSE None

\* VictoryChecker.check_victory_condition, resulting store (the return value
\* is is_game_over)
check_victory_condition(g) ==
    LET winner == is_game_over(g)
    IN  IF winner = None THEN g
        ELSE log_event([g EXCEPT !.game_winner = winner],
                       "game_end", NoPlayer, NoPlayer, winner)

\* ------------------------------------------------------------------------
\* Engine state that SpecStore leaves alone
\* ------------------------------------------------------------------------

NoResult == [success |-> FALSE, action |-> None, target |-> NoPlayer]

NoVote == [final_target |-> NoPlayer, needs_revote |-> FALSE,
           tie_action |-> None, tied_players |-> <<>>, is_revote |-> FALSE,
           vote_counts |-> <<>>, participants |-> 0]

WitchInit == [has_antidote |-> TRUE, has_poison |-> TRUE,
              saved_players |-> <<>>, poisoned_players |-> <<>>,
              last_night_death |-> NoPlayer]

NightInit == [deaths |-> <<>>, applied |-> 0]

\* no ballot is being collected
NoTasks == <<>>

\* ------------------------------------------------------------------------
\* Agent memory (ai_agent.py)
\* ------------------------------------------------------------------------

\* the keys of BaseAIAgent.game_memory
Streams == {"speeches", "votes", "night_actions", "observations",
            "night_discussions", "night_thinking"}

\* BaseAIAgent.__init__: game_memory of a new agent
NewMemory == [s \in Streams |-> <<>>]

\* the event_data handed to update_memory: what happened, to or by whom, the
\* round if the caller gives one, a detail; the timestamp is set by the call
Memo(type, player, round, detail) ==
    [ type |-> type, player_id |-> player, round |-> round, detail |-> detail,
      timestamp |-> 0 ]

\* Python's list[-n:] for n >= 0
python_tail(list, n) ==
    IF n = 0 \/ Len(list) <= n THEN list
    ELSE SubSeq(list, Len(list) - n + 1, Len(list))

\* update_memory, lines 138-144: the cap of a stream
memory_limit(event_type) ==
    CASE event_type = "night_discussions" -> night_discussion_memory_limit
      [] event_type = "night_thinking"    -> night_thinking_memory_limit
      [] OTHER                            -> max_memory_events

\* BaseAIAgent.update_memory on the game_memory of one agent; now is the
\* reading of the clock
\* (mutant: on overflow the first entries are kept)
update_memory_keeps_first(memory, event_type, event_data, now) ==
    LET stamped  == [event_data EXCEPT
                       !.timestamp = now,
                       !.round = IF @ = NoRound THEN 1 ELSE @]
        appended == Append(memory[event_type], stamped)
    IN  IF event_type \notin DOMAIN memory THEN memory
        ELSE [memory EXCEPT ![event_type] =
                 IF Len(appended) > memory_limit(event_type)
                 THEN SubSeq(appended, 1, memory_limit(event_type))
                 ELSE appended]

update_memory(memory, event_type, event_data, now) ==
    LET stamped  == [event_data EXCEPT
                       !.timestamp = now,
                       !.round = IF @ = NoRound THEN 1 ELSE @]
        appended == Append(memory[event_type], stamped)
    IN  IF event_type \notin DOMAIN memory THEN memory
        ELSE [memory EXCEPT ![event_type] =
                 IF Len(appended) > memory_limit(event_type)
                 THEN python_tail(appended, memory_limit(event_type))
                 ELSE appended]

\* BaseAIAgent.observe_death on the game_memory of the observer
observe_death(memory, player_id, cause, now) ==
    update_memory(memory, "observation", Memo("death", player_id, NoRound, cause),
                  now)

\* BaseAIAgent.die, lines 491-497, on the game_memory of the dying agent
die_memory(memory, player_id, cause, now) ==
    update_memory(memory, "observation", Memo("death", player_id, NoRound, cause),
                  now)

\* BaseAIAgent.get_current_round_speeches(current_round)
get_current_round_speeches(memory, current_round) ==
    LET of_round(speech) == speech.round = current_round
    IN  SelectSeq(memory["speeches"], of_round)

\* update_memory called once for every entry of a list, in its order
RECURSIVE update_memory_each(_, _, _, _)
update_memory_each(memory, event_type, entries, now) ==
    IF entries = <<>> THEN memory
    ELSE update_memory_each(update_memory(memory, event_type, Head(entries), now),
                            event_type, Tail(entries), now)

\* conduct_end_of_day_thinking was not called
NoThinking == [success |-> FALSE, thinking_results |-> <<>>]

\* the reading of the clock during a game (other readings: SpecMemory)
EngineClock == 1

\* _execute_night_deaths, lines 656-666: the agent of the victim dies, every
\* other agent of the game observes the death
night_death_memory(memories, target_id, cause, now) ==
    [p \in DOMAIN memories |->
        IF p = target_id THEN die_memory(memories[p], target_id, cause, now)
        ELSE observe_death(memories[p], target_id, cause, now)]

\* _run_discussion_phase, lines 712-717: the speeches of the round held by
\* the players who spoke before position i
RECURSIVE speeches_before(_, _, _, _)
speeches_before(memories, order, i, round_num) ==
    IF i <= 1 THEN <<>>
    ELSE speeches_before(memories, order, i - 1, round_num)
           \o get_current_round_speeches(memories[order[i - 1]], round_num)

\* the agents of listeners hear the speech of speaker
hear_speech(memories, listeners, speaker, round_num, context, now) ==
    [p \in DOMAIN memories |->
        IF p \in listeners /\ p # speaker
        THEN update_memory(memories[p], "speeches",
                           Memo("speech", speaker, round_num, context), now)
        ELSE memories[p]]

\* _run_discussion_phase, lines 709-747, from position i of the speaking
\* order on; a speaker in silent raises in make_speech
RECURSIVE discussion_memory(_, _, _, _, _, _)
discussion_memory(memories, order, silent, i, round_num, now) ==
    IF i > Len(order) THEN memories
    ELSE LET player == order[i]
             fed    == [memories EXCEPT ![player] =
                          update_memory_each(@, "speeches",
                              speeches_before(memories, order, i, round_num), now)]
             heard  == IF player \in silent THEN fed
                       ELSE hear_speech(fed, Range(order), player, round_num,
                                        "discussion", now)
         IN  discussion_memory(heard, order, silent, i + 1, round_num, now)

\* _run_voting_phase, lines 800-828: the tied players speak again
RECURSIVE revote_memory(_, _, _, _, _)
revote_memory(memories, alive, speakers, round_num, now) ==
    IF speakers = <<>> THEN memories
    ELSE revote_memory(hear_speech(memories, alive, Head(speakers), round_num,
                                   "tie_defense", now),
                       alive, Tail(speakers), round_num, now)

\* DayEndSystem._broadcast_last_words_to_players with the alive players given
broadcast_last_words(memories, exiled, alive_players, round_num, now) ==
    hear_speech(memories, alive_players, exiled, round_num, "exile_last_words",
                now)

\* _run_voting_phase, lines 917-929: the reflections that succeeded are
\* written to the memory of the agent that reflected
store_reflections(memories, statuses, round_num, now) ==
    [p \in DOMAIN memories |->
        IF p \in DOMAIN statuses /\ statuses[p] = "success"
        THEN update_memory(memories[p], "self_reflection",
                           Memo("day_end", p, round_num, "thinking"), now)
        ELSE memories[p]]

EngineIdle ==
    /\ pc = "idle"
    /\ players = [i \in PlayerIds |-> "villager"]
    /\ is_running = FALSE
    /\ agent_alive = [i \in PlayerIds |-> TRUE]
    /\ mode = "agent"
    /\ witch = WitchInit
    /\ vision_results = [i \in PlayerIds |-> None]
    /\ werewolf_result = NoResult
    /\ witch_result = NoResult
    /\ vote_result = NoVote
    /\ night = NightInit
    /\ vote_tasks = NoTasks
    /\ thinking_tasks = NoTasks
    /\ game_memory = [i \in PlayerIds |-> NewMemory]
    /\ thinking_result = NoThinking

\* ------------------------------------------------------------------------
\* SpecStore: the state store driven through its operations
\* ------------------------------------------------------------------------

\* what an operation of the store returned: a bool (ok) or a value
Return(op, ok, value) == [op |-> op, ok |-> ok, value |-> value]

NoReturn == Return(None, FALSE, None)

\* what kill_player(player_id, ...) or revive_player(player_id) returned
Returned(op, player_id, ok) ==
    [op |-> op, ok |-> ok, value |-> None, player_id |-> player_id]

StoreInit ==
    /\ game_state = GameStateInit(NoRound)
    /\ ret = NoReturn
    /\ EngineIdle

\* events of the seats and of the phases up to the first vote
FirstVoteEvents == NumPlayers + 4

StoreRoom ==
    \/ pc = "idle" /\ Len(game_state.game_history) < MaxHistory
    \/ pc = "late" /\ Len(game_state.game_history) < FirstVoteEvents + MaxHistory

\* AddPlayer(id, name, role)
AddPlayer ==
    /\ StoreRoom
    /\ Len(game_state.players) < NumPlayers
    /\ \E role \in Roles : game_state' = add_player(game_state, role)
    /\ ret' = Return("add_player", TRUE, None)
    /\ UNCHANGED engineVars

\* KillPlayer(id, cause), for known and unknown ids
KillPlayer ==
    /\ StoreRoom
    /\ \E id \in 1..(NumPlayers + 1), cause \in Causes :
          /\ game_state' = kill_player(game_state, id, cause)
          /\ ret' = Returned("kill_player", id, kill_player_ok(game_state, id))
    /\ UNCHANGED engineVars

\* RevivePlayer(id), for known and unknown ids
RevivePlayer ==
    /\ StoreRoom
    /\ \E id \in 1..(NumPlayers + 1) :
          /\ game_state' = revive_player(game_state, id)
          /\ ret' = Returned("revive_player", id, revive_player_ok(game_state, id))
    /\ UNCHANGED engineVars

\* AdvancePhase()
AdvancePhase ==
    /\ StoreRoom
    /\ game_state' = advance_phase(game_state)
    /\ ret' = Return("advance_phase", TRUE, game_state'.current_phase)
    /\ UNCHANGED engineVars

\* VictoryChecker.check_victory_condition(game_state)
CheckVictory ==
    /\ StoreRoom
    /\ game_state' = check_victory_condition(game_state)
    /\ ret' = Return("check_victory_condition", is_game_over(game_state) # None,
                   is_game_over(game_state))
    /\ UNCHANGED engineVars

StoreNext == AddPlayer \/ KillPlayer \/ RevivePlayer \/ AdvancePhase \/ CheckVictory

SpecStore == StoreInit /\ [][StoreNext]_vars

\* ------------------------------------------------------------------------
\* Properties of the state store
\* ------------------------------------------------------------------------

AliveSet(g) == Range(g.alive_players)
DeadSet(g) == Range(g.dead_players)
KnownIds(g) == 1..Len(g.players)

\* C1: every player added to the store is in exactly one of the alive and
\* dead lists, once, and the two lists together hold exactly the N players:
\* |alive| + |dead| = N.
C1_AlivePartition ==
    /\ AliveSet(game_state) \cap DeadSet(game_state) = {}
    /\ AliveSet(game_state) \cup DeadSet(game_state) = KnownIds(game_state)
    /\ Len(game_state.alive_players) + Len(game_state.dead_players)
         = Len(game_state.players)
    /\ \A id \in KnownIds(game_state) :
          game_state.players[id].is_alive <=> id \in AliveSet(game_state)

\* several players, a kill and a revive behind them and somebody dead again
C1_Witness ==
    /\ Len(game_state.players) >= 2
    /\ \E i \in 1..Len(game_state.game_history) :
          game_state.game_history[i].event_type = "player_revived"
    /\ game_state.dead_players # <<>>
    /\ game_state.alive_players # <<>>

\* C4: check_victory_condition returns werewolves exactly when no villager
\* faction member (villager, seer, witch) is alive and a werewolf is,
\* villagers exactly when no werewolf is alive and a villager faction member
\* is, draw exactly when nobody is alive, and otherwise None (game continues).
WolvesAlive(g) == {id \in AliveSet(g) : RoleOf(g, id) = "werewolf"}
VillageAlive(g) == {id \in AliveSet(g) : RoleOf(g, id) \in {"villager", "seer", "witch"}}

ExpectedWinner(g) ==
    IF VillageAlive(g) = {} /\ WolvesAlive(g) # {} THEN "werewolves"
    ELSE IF WolvesAlive(g) = {} /\ VillageAlive(g) # {} THEN "villagers"
    ELSE IF AliveSet(g) = {} THEN "draw"
    ELSE None

C4_VictoryRule ==
    [][ ret'.op = "check_victory_condition" =>
          /\ ret'.value = ExpectedWinner(game_state)
          /\ (ret'.value # None => game_state'.game_winner = ret'.value)
          /\ (ret'.value = None => game_state' = game_state) ]_vars

\* the last call declared the werewolves winners while a seer or witch had
\* been among the dead
C4_Witness ==
    /\ ret = Return("check_victory_condition", TRUE, "werewolves")
    /\ game_state.game_winner = "werewolves"
    /\ \E id \in DeadSet(game_state) : RoleOf(game_state, id) \in {"seer", "witch"}

\* C5: advance_phase only moves preparation -> night -> day -> discussion ->
\* voting -> night, and the round grows by exactly 1 on voting -> night and
\* stays as it is on every other transition; nothing else moves phase or round.
PhaseCycle == { <<"preparation", "night">>, <<"night", "day">>,
                <<"day", "discussion">>, <<"discussion", "voting">>,
                <<"voting", "night">> }

C5_PhaseOrder ==
    [][ \/ /\ game_state'.current_phase = game_state.current_phase
           /\ game_state'.current_round = game_state.current_round
        \/ /\ <<game_state.current_phase, game_state'.current_phase>> \in PhaseCycle
           /\ game_state'.current_round =
                 game_state.current_round
                 + (IF game_state.current_phase = "voting" THEN 1 ELSE 0) ]_vars

\* the store has gone once around the cycle
C5_Witness ==
    /\ game_state.current_round = 2
    /\ game_state.current_phase = "night"

\* ------------------------------------------------------------------------
\* The witch (witch_agent.py, roles/witch.py)
\* ------------------------------------------------------------------------

\* What the parsers can tell apart in a reply of the language model: whether
\* it names the antidote, whether it names the poison, and the first player id
\* it gives (NoPlayer when it gives none; NumPlayers + 1 is an id no seat has).
WitchResponses ==
    [antidote : BOOLEAN, poison : BOOLEAN, target : 0..(NumPlayers + 1)]

\* the dictionary a night_action returns
ActionResult(action, target, success) ==
    [action |-> action, target |-> target, success |-> success]

\* WitchAgent._get_default_potion_decision.  The engine's death_info has the
\* keys target and cause, so death_info.get("player_id") is None and nobody is
\* saved; poison_strategy is "conservative", so should_poison_player is False.
get_default_potion_decision(w) == ActionResult("no_action", NoPlayer, TRUE)

\* WitchAgent._parse_agent_response: the potion flags are read, never written
agent_parse_response(w, r) ==
    IF r.antidote
    THEN IF r.target # NoPlayer /\ w.has_antidote
         THEN ActionResult("use_antidote", r.target, TRUE)
         ELSE get_default_potion_decision(w)
    ELSE IF r.poison
    THEN IF r.target # NoPlayer /\ w.has_poison
         THEN ActionResult("use_poison", r.target, TRUE)
         ELSE get_default_potion_decision(w)
    ELSE get_default_potion_decision(w)

\* self.last_night_death = death_info, the first statement of both night_action
\* methods; the witch is told the victim by death_info["target"] and nothing
\* when death_info is None or empty
remember_death(w, death_target) == [w EXCEPT !.last_night_death = death_target]

\* WitchAgent.night_action: result and the witch afterwards
agent_night_action(w, r, death_target) ==
    LET w1 == remember_death(w, death_target)
    IN  IF ~w.has_antidote /\ ~w.has_poison
        THEN [result |-> ActionResult("no_action", NoPlayer, TRUE), witch |-> w1]
        ELSE [result |-> agent_parse_response(w, r), witch |-> w1]

\* Witch._parse_witch_action (roles/witch.py): result and the witch afterwards
\* (mutant: using the poison writes the antidote flag)
parse_witch_action_wrong_flag(w, self, r, death_target) ==
    IF w.has_antidote /\ r.antidote /\ death_target # NoPlayer
    THEN [result |-> ActionResult("save", death_target, TRUE),
          witch  |-> [w EXCEPT !.has_antidote = FALSE,
                               !.saved_players = Append(@, death_target)]]
    ELSE IF w.has_poison /\ r.poison /\ r.target # NoPlayer /\ r.target # self
    THEN [result |-> ActionResult("poison", r.target, TRUE),
          witch  |-> [w EXCEPT !.has_antidote = TRUE, !.has_poison = FALSE,
                               !.poisoned_players = Append(@, r.target)]]
    ELSE [result |-> ActionResult("no_action", NoPlayer, TRUE), witch |-> w]

parse_witch_action(w, self, r, death_target) ==
    IF w.has_antidote /\ r.antidote /\ death_target # NoPlayer
    THEN [result |-> ActionResult("save", death_target, TRUE),
          witch  |-> [w EXCEPT !.has_antidote = FALSE,
                               !.saved_players = Append(@, death_target)]]
    ELSE IF w.has_poison /\ r.poison /\ r.target # NoPlayer /\ r.target # self
    THEN [result |-> ActionResult("poison", r.target, TRUE),
          witch  |-> [w EXCEPT !.has_poison = FALSE,
                               !.poisoned_players = Append(@, r.target)]]
    ELSE [result |-> ActionResult("no_action", NoPlayer, TRUE), witch |-> w]

\* Witch.night_action (roles/witch.py)
traditional_night_action(w, self, r, death_target) ==
    LET w1 == remember_death(w, death_target)
    IN  IF ~w.has_antidote /\ ~w.has_poison
        THEN [result |-> ActionResult("no_action", NoPlayer, TRUE), witch |-> w1]
        ELSE parse_witch_action(w1, self, r, death_target)

\* witch.night_action(game_state_dict, death_info) of the seat the factory built
night_action(m, w, self, r, death_target) ==
    IF m = "agent" THEN agent_night_action(w, r, death_target)
    ELSE traditional_night_action(w, self, r, death_target)

\* WitchAgent.update_state
update_state(w, a) ==
    IF a.action = "use_antidote"
    THEN [w EXCEPT !.has_antidote = FALSE,
                   !.saved_players =
                       IF a.target # NoPlayer /\ a.target \notin Range(@)
                       THEN Append(@, a.target) ELSE @]
    ELSE IF a.action = "use_poison"
    THEN [w EXCEPT !.has_poison = FALSE,
                   !.poisoned_players =
                       IF a.target # NoPlayer /\ a.target \notin Range(@)
                       THEN Append(@, a.target) ELSE @]
    ELSE w

\* WitchTools.use_antidote (witch_tools.py)
use_antidote(w, target) ==
    IF ~w.has_antidote THEN w
    ELSE [w EXCEPT !.has_antidote = FALSE, !.saved_players = Append(@, target)]

\* WitchTools.use_poison (witch_tools.py)
use_poison(w, self, target) ==
    IF ~w.has_poison \/ target = self THEN w
    ELSE [w EXCEPT !.has_poison = FALSE, !.poisoned_players = Append(@, target)]

\* _fallback_witch_action (game_engine.py:541-563): the engine clears the flag
\* of the potion a "save" or "poison" result used
fallback_witch_flags(w, a) ==
    IF a.success /\ a.action = "save" /\ a.target # NoPlayer
    THEN [w EXCEPT !.has_antidote = FALSE]
    ELSE IF a.success /\ a.action = "poison" /\ a.target # NoPlayer
    THEN [w EXCEPT !.has_poison = FALSE]
    ELSE w

\* ------------------------------------------------------------------------
\* Engine: the seats
\* ------------------------------------------------------------------------

\* role distributions the games are played with; the seats of a role are
\* shuffled by _create_players, two of the orders are kept
LayoutA == [i \in PlayerIds |->
              CASE i = 1 -> "werewolf" [] i = 2 -> "witch"
                [] i = 3 -> "seer" [] OTHER -> "villager"]

LayoutB == [i \in PlayerIds |->
              CASE i = 1 -> "witch" [] i = 2 -> "werewolf" [] i = 3 -> "werewolf"
                [] OTHER -> "villager"]

RoleLayouts == {LayoutA, LayoutB}

\* [p for p in self.players if p.is_alive], as the set of their ids
\* (mutant: every player of the game, dead or alive)
AliveAgents_or_dead == PlayerIds

AliveAgents == {i \in PlayerIds : agent_alive[i]}

\* special_roles[role]: the last seat of that role, NoPlayer when there is none
SpecialRole(role) ==
    LET seats == {i \in PlayerIds : players[i] = role}
    IN  IF seats = {} THEN NoPlayer ELSE CHOOSE i \in seats : \A j \in seats : j <= i

\* the ids of a set as an ascending list (the order of self.players)
RECURSIVE Ascending(_)
Ascending(S) ==
    IF S = {} THEN <<>>
    ELSE LET m == CHOOSE x \in S : \A y \in S : x <= y
         IN  <<m>> \o Ascending(S \ {m})

\* _initialize_game: add_player for every seat in order
RECURSIVE add_players(_, _)
add_players(g, i) ==
    IF i > NumPlayers THEN g
    ELSE add_players(add_player(g, players[i]), i + 1)

\* ------------------------------------------------------------------------
\* Voting system (voting_system.py)
\* ------------------------------------------------------------------------

\* GameState.record_speech / record_vote (the game_history entries)
record_speech(g, player) == log_event(g, "speech", player, NoPlayer, None)

record_vote(g, voter, target) == log_event(g, "vote", voter, target, None)

\* the speeches of a list of players, in order
RECURSIVE record_speeches(_, _)
record_speeches(g, speakers) ==
    IF speakers = <<>> THEN g
    ELSE record_speeches(record_speech(g, Head(speakers)), Tail(speakers))

\* what voter.vote did, as _collect_single_vote sees it: it returned an id
\* (NoPlayer for None) or it raised
Raised == -1

\* one call of voter.vote, with the value random.choice(candidates) takes if
\* collect_votes comes to call it for this voter
VoteCall(returned, random) == [returned |-> returned, random |-> random]

\* VotingSystem._collect_single_vote: the response handed to collect_votes; an
\* exception of voter.vote is caught and None is returned in place of a pair
collect_single_vote(call) ==
    IF call.returned = Raised THEN None ELSE "pair"

\* collect_votes, line 86: target_id in candidates
\* (mutant: any id a player could have)
vote_is_valid_any_id(call, candidates) == call.returned # NoPlayer

vote_is_valid(call, candidates) == call.returned \in Range(candidates)

\* VotingSystem.collect_votes, the loop over the responses: an exception
\* response gets a random candidate, counted and not recorded; a None response
\* is passed over; a vote for a candidate is counted and recorded; any other
\* id gets a random candidate, counted and not recorded.  The result is the
\* store and the counted targets in the order they were counted.
RECURSIVE count_responses(_, _, _, _)
count_responses(g, voters, candidates, ballot) ==
    IF voters = <<>> THEN [g |-> g, votes |-> <<>>]
    ELSE LET v        == Head(voters)
             response == collect_single_vote(ballot[v])
             valid    == response = "pair" /\ vote_is_valid(ballot[v], candidates)
             counted  == IF response = "exception" THEN <<ballot[v].random>>
                         ELSE IF response = None THEN <<>>
                         ELSE IF valid THEN <<ballot[v].returned>>
                         ELSE <<ballot[v].random>>
             g1       == IF valid THEN record_vote(g, v, ballot[v].returned)
                         ELSE g
             rest     == count_responses(g1, Tail(voters), candidates, ballot)
         IN  [g |-> rest.g, votes |-> counted \o rest.votes]

\* VotingSystem.collect_votes: the responses are counted and the entry of the
\* ballot is written to voting_results
collect_votes(g, voters, candidates, ballot) ==
    LET counted == count_responses(g, voters, candidates, ballot)
    IN  [g |-> [counted.g EXCEPT !.voting_results =
                    [vote_counts  |-> counted.votes,
                     candidates   |-> candidates,
                     total_voters |-> Len(voters)]],
         votes |-> counted.votes]

\* votes.items(): the targets in the order they were first counted
RECURSIVE FirstSeen(_)
FirstSeen(votes) ==
    IF votes = <<>> THEN <<>>
    ELSE <<Head(votes)>> \o FirstSeen(Without(Tail(votes), Head(votes)))

\* votes[t]
VoteCount(votes, t) == CountIn(votes, {t})

\* [x for x in s if x in S]
RECURSIVE Keep(_, _)
Keep(s, S) ==
    IF s = <<>> THEN <<>>
    ELSE IF Head(s) \in S THEN <<Head(s)>> \o Keep(Tail(s), S)
    ELSE Keep(Tail(s), S)

\* VotingSystem.calculate_result
calculate_result(votes) ==
    IF votes = <<>>
    THEN [winner |-> NoPlayer, is_tie |-> FALSE, tied_players |-> <<>>]
    ELSE LET max_votes == CHOOSE m \in 1..Len(votes) :
                             /\ \E t \in Range(votes) : VoteCount(votes, t) = m
                             /\ \A t \in Range(votes) : VoteCount(votes, t) <= m
             winners   == Keep(FirstSeen(votes),
                               {t \in Range(votes) : VoteCount(votes, t) = max_votes})
             is_tie    == Len(winners) > 1
         IN  [winner       |-> IF is_tie THEN NoPlayer ELSE winners[1],
              is_tie       |-> is_tie,
              tied_players |-> IF is_tie THEN winners ELSE <<>>]

\* VotingSystem.handle_tie for two or more tied players: the action taken
\* (mutant: the two actions change places)
handle_tie_swapped(is_revote) ==
    IF is_revote THEN "revote_required" ELSE "skip_elimination"

\* (mutant: a tie always asks for another ballot)
handle_tie_always_revote(is_revote) == "revote_required"

handle_tie(is_revote) ==
    IF is_revote THEN "skip_elimination" ELSE "revote_required"

\* VotingSystem.execute_vote_result for an elimination with a target
execute_vote_result(g, target) ==
    IF ~KnownPlayer(g, target) THEN g
    ELSE log_event(kill_player(g, target, "vote_exile"),
                   "vote_execution", NoPlayer, target,
                   IF kill_player_ok(g, target) THEN "success" ELSE "failed")

\* VotingSystem.conduct_full_vote: the store afterwards and the full result
conduct_full_vote(g, voters, candidates, ballot, is_revote) ==
    LET collected == collect_votes(g, voters, candidates, ballot)
        analysis  == calculate_result(collected.votes)
        g1        == IF analysis.is_tie
                     THEN log_event(collected.g, "tie_break", NoPlayer, NoPlayer,
                                    handle_tie(is_revote))
                     ELSE collected.g
        needs     == analysis.is_tie /\ handle_tie(is_revote) = "revote_required"
        final     == analysis.winner
        g2        == IF final # NoPlayer /\ ~needs
                     THEN execute_vote_result(g1, final) ELSE g1
    IN  [g |-> g2,
         result |-> [final_target |-> final,
                     needs_revote |-> needs,
                     tie_action   |-> IF analysis.is_tie THEN handle_tie(is_revote)
                                      ELSE None,
                     tied_players |-> analysis.tied_players,
                     is_revote    |-> is_revote,
                     vote_counts  |-> collected.votes,
                     participants |-> Len(voters)]]

\* ------------------------------------------------------------------------
\* Engine: the night (game_engine.py)
\* ------------------------------------------------------------------------

\* [w for w in self.werewolves if w.is_alive]
AliveWerewolves == {i \in PlayerIds : players[i] = "werewolf" /\ agent_alive[i]}

\* WerewolfCooperationSystem._analyze_potential_targets: the alive players of
\* the store that are not among the deciding werewolves.  Both the single
\* werewolf's _select_optimal_target and the group's final vote (mentions are
\* counted for these ids only; the random and tie-break choices draw from this
\* list) return the id of one of these targets.
\* (mutant: the deciding werewolves are not excluded)
potential_targets_all_alive(g) == Range(g.alive_players)

potential_targets(g) == Range(g.alive_players) \ AliveWerewolves

\* smallest id of a non-empty set (the first of a list kept in seat order)
First(S) == CHOOSE x \in S : \A y \in S : x <= y

\* the result dictionary of a night handler of the engine
EngineResult(success, action, target) ==
    [success |-> success, action |-> action, target |-> target]

\* _handle_seer_divination, lines 325-326: what the seer is told of the target
\* (mutant: every special role is reported as a werewolf)
role_category_specials(g, target) ==
    IF RoleOf(g, target) # "villager" THEN "werewolf" ELSE "villager"

role_category(g, target) ==
    IF RoleOf(g, target) = "werewolf" THEN "werewolf" ELSE "villager"

\* receive_vision_result: self.vision_results[target_id] = target_role
receive_vision_result(v, target_id, target_role) ==
    [v EXCEPT ![target_id] = target_role]

\* death_info handed to the witch: the victim, only while she has the antidote
\* (mutant: the victim, whenever the werewolves chose one)
death_info_target_always(w, wolf) ==
    IF wolf.success THEN wolf.target ELSE NoPlayer

death_info_target(w, wolf) ==
    IF wolf.success /\ w.has_antidote THEN wolf.target ELSE NoPlayer

\* _handle_witch_agent_action: what the engine accepts of the witch's decision;
\* the store and the engine's result
handle_witch_agent_action(g, self, a) ==
    IF ~a.success THEN [g |-> g, result |-> EngineResult(FALSE, None, NoPlayer)]
    ELSE IF a.action = "use_antidote" /\ a.target # NoPlayer
    THEN [g |-> record_night_action(g, self, "save", a.target),
          result |-> EngineResult(TRUE, "save", a.target)]
    ELSE IF a.action = "use_poison" /\ a.target # NoPlayer
    THEN [g |-> record_night_action(g, self, "poison", a.target),
          result |-> EngineResult(TRUE, "poison", a.target)]
    ELSE [g |-> g, result |-> EngineResult(TRUE, "no_action", NoPlayer)]

\* _fallback_witch_action: what the engine accepts of the witch's decision
fallback_witch_action(g, self, a) ==
    IF ~a.success THEN [g |-> g, result |-> EngineResult(FALSE, None, NoPlayer)]
    ELSE IF a.action = "save" /\ a.target # NoPlayer
    THEN [g |-> record_night_action(g, self, "save", a.target),
          result |-> EngineResult(TRUE, "save", a.target)]
    ELSE IF a.action = "poison" /\ a.target # NoPlayer
    THEN [g |-> record_night_action(g, self, "poison", a.target),
          result |-> EngineResult(TRUE, "poison", a.target)]
    ELSE [g |-> g, result |-> EngineResult(TRUE, "no_action", NoPlayer)]

\* _execute_night_deaths, lines 627-648: the deaths to apply, in order
\* (mutant: a save removes nothing)
collect_night_deaths_unsaved(wolf, wr) ==
    LET kills   == IF wolf.success
                   THEN <<[target |-> wolf.target, cause |-> "werewolf_kill"]>>
                   ELSE <<>>
        poisons == IF wr.success /\ wr.action = "poison"
                   THEN <<[target |-> wr.target, cause |-> "witch_poison"]>>
                   ELSE <<>>
    IN  kills \o poisons

collect_night_deaths(wolf, wr) ==
    LET kills   == IF wolf.success
                   THEN <<[target |-> wolf.target, cause |-> "werewolf_kill"]>>
                   ELSE <<>>
        poisons == IF wr.success /\ wr.action = "poison"
                   THEN <<[target |-> wr.target, cause |-> "witch_poison"]>>
                   ELSE <<>>
        deaths  == kills \o poisons
    IN  IF wr.success /\ wr.action = "save"
        THEN SelectSeq(deaths, LAMBDA d : d.target # wr.target)
        ELSE deaths

\* the for loop of _execute_night_deaths moves on to the next death
\* (mutant: the loop does not count the deaths it has applied)
next_death_uncounted(n) == [deaths |-> Tail(n.deaths), applied |-> n.applied]

next_death(n) == [deaths |-> Tail(n.deaths), applied |-> n.applied + 1]

\* "if winner:" after a victory check (lines 96, 670, 904): the game goes on
\* only while nobody has won (mutant: it always goes on)
game_continues_always(winner) == TRUE

game_continues(winner) == winner = None

\* player.die(): the agent of a seat is marked dead
\* (mutant: the flag of the agent is left as it was)
die_skipped(alive, id) == alive

die(alive, id) == IF id \in PlayerIds THEN [alive EXCEPT ![id] = FALSE] ELSE alive

\* ------------------------------------------------------------------------
\* Spec: a whole game driven by start_game
\* ------------------------------------------------------------------------

Modes == {"agent", "traditional"}

RoundLimits == {NoRound} \cup 1..MaxRoundLimit

\* the engine after __init__, for a configuration of the game
Init ==
    \E layout \in RoleLayouts, m \in Modes, limit \in RoundLimits :
        /\ game_state = GameStateInit(limit)
        /\ ret = NoReturn
        /\ pc = "start"
        /\ players = layout
        /\ is_running = FALSE
        /\ agent_alive = [i \in PlayerIds |-> TRUE]
        /\ mode = m
        /\ witch = WitchInit
        /\ vision_results = [i \in PlayerIds |-> None]
        /\ werewolf_result = NoResult
        /\ witch_result = NoResult
        /\ vote_result = NoVote
        /\ night = NightInit
        /\ vote_tasks = NoTasks
        /\ thinking_tasks = NoTasks
        /\ game_memory = [i \in PlayerIds |-> NewMemory]
        /\ thinking_result = NoThinking

\* start_game, lines 81-90: is_running and _initialize_game
Start ==
    /\ pc = "start"
    /\ is_running' = TRUE
    /\ game_state' = add_players(game_state, 1)
    /\ pc' = "loop"
    /\ UNCHANGED <<ret, players, agent_alive, mode, witch, vision_results,
                   werewolf_result, witch_result, vote_result, night>>
    /\ UNCHANGED <<vote_tasks, thinking_tasks, game_memory, thinking_result>>

\* the handler start_game dispatches to after advance_phase
Handler(phase) ==
    CASE phase = "night"      -> "night_kill"
      [] phase = "day"        -> "day"
      [] phase = "discussion" -> "discussion"
      [] phase = "voting"     -> "voting"
      [] OTHER                -> "final"

\* start_game, lines 93-124: the top of the main loop
LoopTop ==
    /\ pc = "loop"
    /\ LET winner == is_game_over(game_state)
       IN  IF ~game_continues(winner)
           THEN /\ game_state' = check_victory_condition(game_state)
                /\ pc' = "final"
           ELSE IF /\ has_round_limit(game_state)
                   /\ game_state.current_round > game_state.max_rounds
           THEN /\ game_state' = check_victory_condition(game_state)
                /\ pc' = "final"
           ELSE /\ Len(game_state.game_history) < MaxGameHistory
                /\ game_state' = advance_phase(check_victory_condition(game_state))
                /\ pc' = Handler(game_state'.current_phase)
    /\ UNCHANGED <<ret, players, is_running, agent_alive, mode, witch,
                   vision_results, werewolf_result, witch_result, vote_result,
                   night>>
    /\ UNCHANGED <<vote_tasks, thinking_tasks, game_memory, thinking_result>>

\* _handle_werewolf_kill
WerewolfKill ==
    /\ pc = "night_kill"
    /\ IF AliveWerewolves = {} \/ potential_targets(game_state) = {}
       THEN /\ werewolf_result' = NoResult
            /\ UNCHANGED game_state
       ELSE \E t \in potential_targets(game_state) :
               /\ game_state' = record_night_action(game_state,
                                    First(AliveWerewolves), "kill", t)
               /\ werewolf_result' = EngineResult(TRUE, "kill", t)
    /\ pc' = "night_seer"
    /\ UNCHANGED <<ret, players, is_running, agent_alive, mode, witch,
                   vision_results, witch_result, vote_result, night>>
    /\ UNCHANGED <<vote_tasks, thinking_tasks, game_memory, thinking_result>>

\* _handle_seer_divination
SeerDivination ==
    /\ pc = "night_seer"
    /\ LET seer    == SpecialRole("seer")
           targets == Range(game_state.alive_players) \ {seer}
       IN  IF seer = NoPlayer \/ ~agent_alive[seer] \/ targets = {}
           THEN UNCHANGED <<game_state, vision_results>>
           ELSE \E t \in targets :
                   /\ vision_results' =
                         receive_vision_result(vision_results, t,
                                               role_category(game_state, t))
                   /\ game_state' = record_night_action(game_state, seer, "divine", t)
    /\ pc' = "night_witch"
    /\ UNCHANGED <<ret, players, is_running, agent_alive, mode, witch,
                   werewolf_result, witch_result, vote_result, night>>
    /\ UNCHANGED <<vote_tasks, thinking_tasks, game_memory, thinking_result>>

\* _handle_witch_action; raised: the handler of the agent's decision raised
\* before the witch was asked and _fallback_witch_action took over
WitchAction ==
    /\ pc = "night_witch"
    /\ LET self == SpecialRole("witch")
       IN  IF self = NoPlayer \/ ~agent_alive[self]
           THEN /\ witch_result' = EngineResult(FALSE, None, NoPlayer)
                /\ UNCHANGED <<game_state, witch>>
           ELSE IF ~witch.has_antidote /\ ~witch.has_poison
           THEN /\ witch_result' = EngineResult(TRUE, "no_action", NoPlayer)
                /\ UNCHANGED <<game_state, witch>>
           ELSE \E r \in WitchResponses, raised \in BOOLEAN :
                   LET na == night_action(mode, witch, self, r,
                                 death_info_target(witch, werewolf_result))
                       acc == IF raised
                              THEN fallback_witch_action(game_state, self, na.result)
                              ELSE handle_witch_agent_action(game_state, self, na.result)
                   IN  /\ witch' = IF raised
                                   THEN fallback_witch_flags(na.witch, na.result)
                                   ELSE na.witch
                       /\ game_state' = acc.g
                       /\ witch_result' = acc.result
    /\ pc' = "night_resolve"
    /\ UNCHANGED <<ret, players, is_running, agent_alive, mode, vision_results,
                   werewolf_result, vote_result, night>>
    /\ UNCHANGED <<vote_tasks, thinking_tasks, game_memory, thinking_result>>

\* _execute_night_deaths, lines 627-648: deaths and saves are collected
CollectNightDeaths ==
    /\ pc = "night_resolve"
    /\ night' = [deaths |-> collect_night_deaths(werewolf_result, witch_result),
                 applied |-> 0]
    /\ pc' = "night_deaths"
    /\ UNCHANGED <<game_state, ret, players, is_running, agent_alive, mode, witch,
                   vision_results, werewolf_result, witch_result, vote_result>>
    /\ UNCHANGED <<vote_tasks, thinking_tasks, game_memory, thinking_result>>

\* _execute_night_deaths, lines 651-666: one pass of the loop over the deaths
ApplyNightDeath ==
    /\ pc = "night_deaths"
    /\ night.deaths # <<>>
    /\ LET d == Head(night.deaths)
       IN  /\ game_state' = kill_player(game_state, d.target, d.cause)
           /\ agent_alive' = IF kill_player_ok(game_state, d.target)
                             THEN die(agent_alive, d.target) ELSE agent_alive
           /\ game_memory' = IF kill_player_ok(game_state, d.target)
                             THEN night_death_memory(game_memory, d.target,
                                                     d.cause, EngineClock)
                             ELSE game_memory
    /\ night' = next_death(night)
    /\ UNCHANGED <<ret, pc, players, is_running, mode, witch, vision_results,
                   werewolf_result, witch_result, vote_result>>
    /\ UNCHANGED <<vote_tasks, thinking_tasks, thinking_result>>

\* _execute_night_deaths, lines 668-672, and the return to the main loop
NightVictoryCheck ==
    /\ pc = "night_deaths"
    /\ night.deaths = <<>>
    /\ game_state' = check_victory_condition(game_state)
    /\ is_running' = (is_running /\ game_continues(is_game_over(game_state)))
    /\ pc' = IF is_running' THEN "loop" ELSE "final"
    /\ UNCHANGED <<ret, players, agent_alive, mode, witch, vision_results,
                   werewolf_result, witch_result, vote_result, night>>
    /\ UNCHANGED <<vote_tasks, thinking_tasks, game_memory, thinking_result>>

\* _run_day_phase: the deaths of the night are announced
RunDay ==
    /\ pc = "day"
    /\ pc' = "loop"
    /\ UNCHANGED <<game_state, ret, players, is_running, agent_alive, mode, witch,
                   vision_results, werewolf_result, witch_result, vote_result,
                   night>>
    /\ UNCHANGED <<vote_tasks, thinking_tasks, game_memory, thinking_result>>

\* the ids of a set as a descending list
RECURSIVE Descending(_)
Descending(S) ==
    IF S = {} THEN <<>>
    ELSE LET m == CHOOSE x \in S : \A y \in S : y <= x
         IN  <<m>> \o Descending(S \ {m})

\* _run_discussion_phase, lines 705-706: the alive players, sorted by player_id
\* (mutant: sorted with the largest id first)
speaking_order_reversed(alive) == Descending(alive)

speaking_order(alive) == Ascending(alive)

\* _run_discussion_phase, the loop: the alive players speak in turn; a player
\* whose make_speech raises (silent) is passed over by the except clause
discussion_phase(g, alive, silent) ==
    record_speeches(g, Keep(speaking_order(alive), alive \ silent))

\* _run_discussion_phase in a game: every speaker's make_speech returns
\* (speakers that raise are the subject of SpecTalk)
RunDiscussion ==
    /\ pc = "discussion"
    /\ game_state' = discussion_phase(game_state, AliveAgents, {})
    /\ game_memory' = discussion_memory(game_memory, speaking_order(AliveAgents),
                          {}, 1, game_state.current_round, EngineClock)
    /\ pc' = "loop"
    /\ UNCHANGED <<ret, players, is_running, agent_alive, mode, witch,
                   vision_results, werewolf_result, witch_result, vote_result,
                   night>>
    /\ UNCHANGED <<vote_tasks, thinking_tasks, thinking_result>>

\* the vote calls of one ballot of a game: every voter names a candidate or
\* raises (ids outside the slate are the subject of SpecVote)
Ballots(voters, candidates) ==
    [voters -> {VoteCall(t, First(candidates)) : t \in candidates \cup {Raised}}]

\* _run_voting_phase, lines 754-779: the phase is passed over with two or
\* fewer alive players, otherwise the first ballot is held
RunVoting ==
    /\ pc = "voting"
    /\ IF Cardinality(AliveAgents) <= 2
       THEN /\ pc' = "loop"
            /\ UNCHANGED <<game_state, vote_result>>
       ELSE \E ballot \in Ballots(AliveAgents, AliveAgents) :
               LET full == conduct_full_vote(game_state, Ascending(AliveAgents),
                               Ascending(AliveAgents), ballot, FALSE)
               IN  /\ game_state' = full.g
                   /\ vote_result' = full.result
                   /\ pc' = IF full.result.needs_revote THEN "revote"
                            ELSE "vote_resolve"
    /\ UNCHANGED <<ret, players, is_running, agent_alive, mode, witch,
                   vision_results, werewolf_result, witch_result, night>>
    /\ UNCHANGED <<vote_tasks, thinking_tasks, game_memory, thinking_result>>

\* _run_voting_phase, lines 782-851: the tied players speak again and the
\* voters vote among them
Revote ==
    /\ pc = "revote"
    /\ LET tied == vote_result.tied_players
       IN  \E ballot \in Ballots(AliveAgents, Range(tied)) :
              LET spoken == record_speeches(game_state,
                                Ascending(AliveAgents \cap Range(tied)))
                  full   == conduct_full_vote(spoken, Ascending(AliveAgents),
                                tied, ballot, TRUE)
              IN  /\ game_state' = full.g
                  /\ vote_result' = full.result
    /\ game_memory' = revote_memory(game_memory, AliveAgents,
                          Ascending(AliveAgents \cap Range(vote_result.tied_players)),
                          game_state.current_round, EngineClock)
    /\ pc' = "vote_resolve"
    /\ UNCHANGED <<ret, players, is_running, agent_alive, mode, witch,
                   vision_results, werewolf_result, witch_result, night>>
    /\ UNCHANGED <<vote_tasks, thinking_tasks, thinking_result>>

\* _run_voting_phase, lines 853-860: the ballot names a player to exile
HasExile(g, result) ==
    /\ result.tie_action # "skip_elimination"
    /\ result.final_target # NoPlayer
    /\ KnownPlayer(g, result.final_target)

\* the outcomes of the reflections of a game: every player's reflection
\* succeeds, or the first player's raises
Reflections(alive) ==
    { [p \in alive |-> "success"],
      [p \in alive |-> IF p = First(alive) THEN "error" ELSE "success"] }

\* _run_voting_phase, lines 853-932: the exiled player's last words are
\* asked for (said: the model's answer came) and broadcast, its agent dies,
\* the victory condition is checked and, in a game that goes on, the alive
\* players reflect on the day
VoteResolve ==
    /\ pc = "vote_resolve"
    /\ LET exile    == HasExile(game_state, vote_result)
           exiled   == vote_result.final_target
           round_num == game_state.current_round
           survivors == AliveAgents \ {exiled}
       IN  /\ agent_alive' = IF exile THEN die(agent_alive, exiled)
                             ELSE agent_alive
           /\ game_state' = check_victory_condition(game_state)
           /\ is_running' = (is_running
                               /\ game_continues(is_game_over(game_state)))
           /\ \E said \in BOOLEAN :
              \E statuses \in Reflections({p \in PlayerIds : agent_alive'[p]}) :
                LET heard  == IF exile /\ said
                              THEN broadcast_last_words(game_memory, exiled,
                                       survivors, round_num, EngineClock)
                              ELSE game_memory
                    died   == IF exile
                              THEN [heard EXCEPT ![exiled] =
                                      die_memory(@, exiled, "vote_exile",
                                                 EngineClock)]
                              ELSE heard
                IN  IF is_running'
                    THEN /\ thinking_result' =
                               [success |-> TRUE, thinking_results |-> statuses]
                         /\ game_memory' = store_reflections(died, statuses,
                                               round_num, EngineClock)
                    ELSE /\ thinking_result' = NoThinking
                         /\ game_memory' = died
    /\ pc' = IF is_running' THEN "loop" ELSE "final"
    /\ UNCHANGED <<ret, players, mode, witch, vision_results, werewolf_result,
                   witch_result, vote_result, night>>
    /\ UNCHANGED <<vote_tasks, thinking_tasks>>

\* _finalize_game
FinalizeGame ==
    /\ pc = "final"
    /\ is_running' = FALSE
    /\ pc' = "done"
    /\ UNCHANGED <<game_state, ret, players, agent_alive, mode, witch,
                   vision_results, werewolf_result, witch_result, vote_result,
                   night>>
    /\ UNCHANGED <<vote_tasks, thinking_tasks, game_memory, thinking_result>>

Next ==
    \/ Start
    \/ LoopTop
    \/ WerewolfKill
    \/ SeerDivination
    \/ WitchAction
    \/ CollectNightDeaths
    \/ ApplyNightDeath
    \/ NightVictoryCheck
    \/ RunDay
    \/ RunDiscussion
    \/ RunVoting
    \/ Revote
    \/ VoteResolve
    \/ FinalizeGame

Spec == Init /\ [][Next]_vars

\* ------------------------------------------------------------------------
\* SpecWitch: the witch driven through every operation that touches her potions
\* ------------------------------------------------------------------------

\* a witch of either factory mode, seated as in LayoutA, outside a game
WitchObjInit ==
    \E m \in Modes :
        /\ game_state = GameStateInit(NoRound)
        /\ ret = NoReturn
        /\ pc = "witch"
        /\ players = LayoutA
        /\ is_running = FALSE
        /\ agent_alive = [i \in PlayerIds |-> TRUE]
        /\ mode = m
        /\ witch = WitchInit
        /\ vision_results = [i \in PlayerIds |-> None]
        /\ werewolf_result = NoResult
        /\ witch_result = NoResult
        /\ vote_result = NoVote
        /\ night = NightInit
        /\ vote_tasks = NoTasks
        /\ thinking_tasks = NoTasks
        /\ game_memory = [i \in PlayerIds |-> NewMemory]
        /\ thinking_result = NoThinking

\* what the witch's operations leave alone
witchFrame == <<ret, pc, players, is_running, agent_alive, mode, vision_results,
                werewolf_result, vote_result, night, vote_tasks, thinking_tasks,
                game_memory, thinking_result>>

\* witch.night_action(game_state, death_info)
WitchNightAction ==
    /\ pc = "witch"
    /\ \E r \in WitchResponses, death_target \in 0..NumPlayers :
          LET na == night_action(mode, witch, SpecialRole("witch"), r,
                                 IF witch.has_antidote THEN death_target
                                 ELSE NoPlayer)
          IN  /\ witch' = na.witch
              /\ witch_result' = na.result
    /\ UNCHANGED game_state
    /\ UNCHANGED witchFrame

\* _fallback_witch_action(witch, werewolf_result)
WitchFallbackAction ==
    /\ pc = "witch"
    /\ \E r \in WitchResponses, death_target \in 0..NumPlayers :
          LET na  == night_action(mode, witch, SpecialRole("witch"), r,
                                  IF witch.has_antidote THEN death_target
                                  ELSE NoPlayer)
              acc == fallback_witch_action(game_state, SpecialRole("witch"),
                                           na.result)
          IN  /\ witch' = fallback_witch_flags(na.witch, na.result)
              /\ witch_result' = acc.result
              /\ game_state' = acc.g
    /\ UNCHANGED witchFrame

\* the target_id of an action_result given to update_state: none, a seat, an
\* id no seat has
UpdateTargets == {NoPlayer, 1, NumPlayers + 1}

\* WitchAgent.update_state(action_result)
WitchUpdateState ==
    /\ pc = "witch"
    /\ mode = "agent"
    /\ \E action \in {"use_antidote", "use_poison", "no_action"},
          target \in UpdateTargets :
          witch' = update_state(witch, ActionResult(action, target, TRUE))
    /\ UNCHANGED <<game_state, witch_result>>
    /\ UNCHANGED witchFrame

\* WitchTools.use_antidote(target_id), a tool of the witch agent
WitchUseAntidote ==
    /\ pc = "witch"
    /\ mode = "agent"
    /\ \E target \in 1..(NumPlayers + 1) : witch' = use_antidote(witch, target)
    /\ UNCHANGED <<game_state, witch_result>>
    /\ UNCHANGED witchFrame

\* WitchTools.use_poison(target_id), a tool of the witch agent
WitchUsePoison ==
    /\ pc = "witch"
    /\ mode = "agent"
    /\ \E target \in 1..(NumPlayers + 1) :
          witch' = use_poison(witch, SpecialRole("witch"), target)
    /\ UNCHANGED <<game_state, witch_result>>
    /\ UNCHANGED witchFrame

WitchNext ==
    \/ WitchNightAction
    \/ WitchFallbackAction
    \/ WitchUpdateState
    \/ WitchUseAntidote
    \/ WitchUsePoison

SpecWitch == WitchObjInit /\ [][WitchNext]_vars

\* ------------------------------------------------------------------------
\* Properties of a game
\* ------------------------------------------------------------------------

\* the positions of the events a step appends to the event log
NewEventIndexes ==
    (Len(game_state.game_history) + 1)..Len(game_state'.game_history)

\* the step appends an event of one of the given types
Appends(types) ==
    \E i \in NewEventIndexes : game_state'.game_history[i].event_type \in types

\* C2: once game_winner is set, no death event (night kill or exile) and no
\* phase-change event is appended to the event log any more.
C2_NoEventsAfterVictory ==
    [][ game_state.game_winner # None
          => ~Appends({"player_death", "phase_change"}) ]_vars

\* a game that was won and then wound up by _finalize_game
C2_Witness ==
    /\ pc = "done"
    /\ game_state.game_winner # None
    /\ game_state.dead_players # <<>>

NightPositions == {"night_kill", "night_seer", "night_witch", "night_resolve",
                   "night_deaths"}

C6_Counterexample ==
    /\ ( /\ has_round_limit(game_state)
         /\ game_state.current_round > game_state.max_rounds )
       => pc \notin NightPositions
    /\ ( /\ ~has_round_limit(game_state)
         /\ pc \in {"final", "done"} )
       => game_state.game_winner # None

\* C7: when all deaths of a night have been applied, the players who died in
\* it are exactly the werewolves' target, unless the engine accepted the
\* witch's save of that player, and the target of the witch's accepted poison;
\* a victim whose save was accepted is alive.
DiedThisNight(p) ==
    \E i \in 1..Len(game_state.game_history) :
        LET e == game_state.game_history[i]
        IN  /\ e.event_type = "player_death"
            /\ e.player_id = p
            /\ e.round = game_state.current_round
            /\ e.phase = "night"

AliveAtNightStart == AliveSet(game_state) \cup {p \in KnownIds(game_state) : DiedThisNight(p)}

Saved(p) ==
    witch_result.success /\ witch_result.action = "save" /\ witch_result.target = p

Poisoned(p) ==
    witch_result.success /\ witch_result.action = "poison" /\ witch_result.target = p

WolfTarget(p) == werewolf_result.success /\ werewolf_result.target = p

NightDeathsApplied == pc = "night_deaths" /\ night.deaths = <<>>

Accepted(kind) ==
    {i \in 1..Len(game_state.game_history) :
        /\ game_state.game_history[i].event_type = "night_action"
        /\ game_state.game_history[i].detail = kind}

C8_Counterexample ==
    /\ Cardinality(Accepted("save")) <= 1
    /\ Cardinality(Accepted("poison")) <= 1
    /\ Len(witch.saved_players) <= 1
    /\ Len(witch.poisoned_players) <= 1

\* C9 as stated: an accepted save finds has_antidote true, leaves it false and
\* leaves the victim in saved; an accepted poison finds has_poison true and
\* leaves it false.
C9_Counterexample ==
    [][ /\ pc = "night_witch"
        /\ witch_result'.success
        => /\ witch_result'.action = "save"
              => /\ witch.has_antidote
                 /\ ~witch'.has_antidote
                 /\ witch_result'.target \in Range(witch'.saved_players)
           /\ witch_result'.action = "poison"
              => /\ witch.has_poison
                 /\ ~witch'.has_poison ]_vars

\* C10: has_antidote and has_poison never change from false to true.
C10_PotionsNeverReturn ==
    [][ /\ ~witch.has_antidote => ~witch'.has_antidote
        /\ ~witch.has_poison => ~witch'.has_poison ]_vars

\* both potions are used up and the witch has been asked to act again
C10_Witness ==
    /\ pc = "witch"
    /\ ~witch.has_antidote
    /\ ~witch.has_poison
    /\ witch.saved_players # <<>>
    /\ witch.poisoned_players # <<>>
    /\ witch_result = ActionResult("no_action", NoPlayer, TRUE)

\* ------------------------------------------------------------------------
\* Properties of the night roles
\* ------------------------------------------------------------------------

\* the engine is about to ask the witch for her night action
WitchCalled ==
    /\ pc = "night_witch"
    /\ SpecialRole("witch") # NoPlayer
    /\ agent_alive[SpecialRole("witch")]
    /\ witch.has_antidote \/ witch.has_poison

\* C11: a night_action call made to the witch while has_antidote is false
\* carries no information about tonight's werewolf target; the call names the
\* target only when she still has the antidote.
C11_DeathInfoOnlyWithAntidote ==
    [][ WitchCalled =>
          witch'.last_night_death =
              IF witch.has_antidote /\ werewolf_result.success
              THEN werewolf_result.target ELSE NoPlayer ]_vars

\* the witch was asked on a night with a victim after her antidote was gone
\* and was told nothing
C11_Witness ==
    /\ pc = "night_resolve"
    /\ werewolf_result.success
    /\ ~witch.has_antidote
    /\ witch.has_poison
    /\ witch.last_night_death = NoPlayer
    /\ game_state.current_round = 2

\* C12 as stated: every poison action the engine accepts targets a live player
\* other than the witch herself.  WitchAgent._parse_agent_response accepts any
\* non-zero target_id and _handle_witch_agent_action accepts it unexamined.
C12_Counterexample ==
    (pc = "night_resolve" /\ witch_result.success /\ witch_result.action = "poison")
        => witch_result.target \in AliveSet(game_state) \ {SpecialRole("witch")}

C14_Counterexample ==
    \A i, j \in Accepted("divine") :
        /\ game_state.game_history[i].target_id # game_state.game_history[i].player_id
        /\ i # j => game_state.game_history[i].target_id
                        # game_state.game_history[j].target_id

\* C15: at all times every entry vision_results[p] stored by the seer says
\* werewolf if and only if the role of player p is werewolf.
C15_VisionResultsTrue ==
    \A p \in PlayerIds :
        vision_results[p] # None =>
            (vision_results[p] = "werewolf" <=> players[p] = "werewolf")

C15_Witness ==
    \E p, q \in PlayerIds :
        /\ vision_results[p] = "werewolf"
        /\ vision_results[q] = "villager"

\* ------------------------------------------------------------------------
\* SpecVote: conduct_full_vote applied to every ballot of a voting phase
\* ------------------------------------------------------------------------

\* kill_player for a list of players
RECURSIVE kill_players(_, _, _)
kill_players(g, ids, cause) ==
    IF ids = <<>> THEN g
    ELSE kill_players(kill_player(g, Head(ids), cause), Tail(ids), cause)

\* _run_voting_phase holds a ballot only with more than two players alive
VotingRooms == {dead \in SUBSET PlayerIds : Cardinality(PlayerIds \ dead) > 2}

\* a game at the start of a voting phase: all seats added, some players dead
VoteInit ==
    \E layout \in RoleLayouts, dead \in VotingRooms :
        /\ players = layout
        /\ game_state = kill_players(add_players(GameStateInit(NoRound), 1),
                                     Ascending(dead), "werewolf_kill")
        /\ ret = NoReturn
        /\ pc = "ballot"
        /\ is_running = TRUE
        /\ agent_alive = [i \in PlayerIds |-> i \notin dead]
        /\ mode = "agent"
        /\ witch = WitchInit
        /\ vision_results = [i \in PlayerIds |-> None]
        /\ werewolf_result = NoResult
        /\ witch_result = NoResult
        /\ vote_result = NoVote
        /\ night = NightInit
        /\ vote_tasks = NoTasks
        /\ thinking_tasks = NoTasks
        /\ game_memory = [i \in PlayerIds |-> NewMemory]
        /\ thinking_result = NoThinking

\* what voter.vote can come back with besides a candidate or an exception:
\* None, the id of a player outside the slate (alive or dead), an id no seat has
Outside(candidates) == (0..(NumPlayers + 1)) \ candidates

\* the vote calls of one ballot; random.choice is called, with any candidate as
\* its value, only for a voter whose call returned an id outside the slate
VoteCalls(voters, candidates) ==
    [voters -> {VoteCall(t, First(candidates)) : t \in candidates \cup {Raised}}
               \cup {VoteCall(t, r) : t \in Outside(candidates), r \in candidates}]

\* what conduct_full_vote leaves alone
voteFrame == <<ret, players, is_running, agent_alive, mode, witch,
               vision_results, werewolf_result, witch_result, night, vote_tasks, thinking_tasks,
                game_memory, thinking_result>>

\* conduct_full_vote(alive_players, alive_player_ids, "elimination")
ConductFirstVote ==
    /\ pc = "ballot"
    /\ \E ballot \in VoteCalls(AliveAgents, AliveAgents) :
          LET full == conduct_full_vote(game_state, Ascending(AliveAgents),
                          Ascending(AliveAgents), ballot, FALSE)
          IN  /\ game_state' = full.g
              /\ vote_result' = full.result
    /\ pc' = "voted"
    /\ UNCHANGED voteFrame

\* conduct_full_vote(alive_players, tied_players, "elimination", is_revote=True)
\* for the tied players of a first ballot
ConductRevote ==
    /\ pc = "ballot"
    /\ \E tied \in SUBSET AliveAgents :
          /\ Cardinality(tied) > 1
          /\ \E ballot \in VoteCalls(AliveAgents, tied) :
                LET full == conduct_full_vote(game_state, Ascending(AliveAgents),
                                Ascending(tied), ballot, TRUE)
                IN  /\ game_state' = full.g
                    /\ vote_result' = full.result
    /\ pc' = "voted"
    /\ UNCHANGED voteFrame

VoteNext ==
    \/ ConductFirstVote
    \/ ConductRevote

SpecVote == VoteInit /\ [][VoteNext]_vars

\* ------------------------------------------------------------------------
\* SpecGather: collect_votes with the vote calls of a first ballot in flight
\* ------------------------------------------------------------------------

\* a vote task of asyncio.gather.  A task is pending until _collect_single_vote
\* returns; never_returns marks the task whose voter.vote call hangs for good.
VoteTask(state, call) == [state |-> state, call |-> call]

NoCall == VoteCall(NoPlayer, NoPlayer)

\* at most one voter's call hangs
Hanging(voters) == {h \in SUBSET voters : Cardinality(h) <= 1}

\* collect_votes, lines 53-57: a task per alive voter is created
CreateVoteTasks ==
    /\ pc = "ballot"
    /\ \E hung \in Hanging(AliveAgents) :
          vote_tasks' = [v \in AliveAgents |->
                            IF v \in hung THEN VoteTask("never_returns", NoCall)
                            ELSE VoteTask("pending", NoCall)]
    /\ pc' = "gather"
    /\ UNCHANGED <<game_state, vote_result, ret, players, is_running,
                   agent_alive, mode, witch, vision_results, werewolf_result,
                   witch_result, night>>
    /\ UNCHANGED <<thinking_tasks, game_memory, thinking_result>>

\* _collect_single_vote, lines 136-149, on the store: export_state and
\* voter.vote are given a projection and the candidates, and the store is
\* left as it is
\* (mutant: the vote is recorded as soon as the call comes back)
collect_single_vote_store_records(g, voter, call) ==
    IF call.returned = Raised THEN g ELSE record_vote(g, voter, call.returned)

collect_single_vote_store(g, voter, call) == g

\* _collect_single_vote of one voter comes back, its call having returned a
\* candidate or raised
VoteTaskDone ==
    /\ pc = "gather"
    /\ \E v \in DOMAIN vote_tasks :
          /\ vote_tasks[v].state = "pending"
          /\ \E t \in AliveAgents \cup {Raised} :
                /\ vote_tasks' = [vote_tasks EXCEPT
                                    ![v] = VoteTask("done",
                                              VoteCall(t, First(AliveAgents)))]
                /\ game_state' = collect_single_vote_store(game_state, v,
                                      VoteCall(t, First(AliveAgents)))
    /\ UNCHANGED <<vote_result, pc, ret, players, is_running,
                   agent_alive, mode, witch, vision_results, werewolf_result,
                   witch_result, night>>
    /\ UNCHANGED <<thinking_tasks, game_memory, thinking_result>>

\* collect_votes, line 60: await asyncio.gather(*vote_tasks) comes back once
\* every task is done (no timeout is given; vote_timeout is never read)
GatherReturns ==
    /\ pc = "gather"
    /\ \A v \in DOMAIN vote_tasks : vote_tasks[v].state = "done"
    /\ pc' = "responses"
    /\ UNCHANGED <<game_state, vote_result, vote_tasks, thinking_tasks, ret, players,
                   is_running, agent_alive, mode, witch, vision_results,
                   werewolf_result, witch_result, night>>
    /\ UNCHANGED <<game_memory, thinking_result>>

\* collect_votes from line 63 on, and the rest of conduct_full_vote
ProcessResponses ==
    /\ pc = "responses"
    /\ LET ballot == [v \in DOMAIN vote_tasks |-> vote_tasks[v].call]
           full   == conduct_full_vote(game_state, Ascending(AliveAgents),
                         Ascending(AliveAgents), ballot, FALSE)
       IN  /\ game_state' = full.g
           /\ vote_result' = full.result
    /\ pc' = "voted"
    /\ UNCHANGED <<vote_tasks, thinking_tasks, ret, players, is_running, agent_alive, mode,
                   witch, vision_results, werewolf_result, witch_result, night>>
    /\ UNCHANGED <<game_memory, thinking_result>>

\* _run_voting_phase, lines 853-907, after a first ballot that asks for no
\* other: the last words of the exiled player are asked for (said: the
\* model's answer came) and broadcast, its agent dies and the victory
\* condition is checked
ExileResolved ==
    /\ pc = "voted"
    /\ ~vote_result.needs_revote
    /\ LET exile     == HasExile(game_state, vote_result)
           exiled    == vote_result.final_target
           survivors == AliveAgents \ {exiled}
       IN  /\ agent_alive' = IF exile THEN die(agent_alive, exiled)
                             ELSE agent_alive
           /\ game_state' = check_victory_condition(game_state)
           /\ is_running' = (is_running
                               /\ game_continues(is_game_over(game_state)))
           /\ \E said \in BOOLEAN :
                LET heard == IF exile /\ said
                             THEN broadcast_last_words(game_memory, exiled,
                                      survivors, game_state.current_round,
                                      EngineClock)
                             ELSE game_memory
                IN  game_memory' = IF exile
                                   THEN [heard EXCEPT ![exiled] =
                                           die_memory(@, exiled, "vote_exile",
                                                      EngineClock)]
                                   ELSE heard
    /\ pc' = IF is_running' THEN "day_end" ELSE "ended"
    /\ UNCHANGED <<vote_result, ret, players, mode, witch, vision_results,
                   werewolf_result, witch_result, night>>
    /\ UNCHANGED <<vote_tasks, thinking_tasks, thinking_result>>

\* a thinking task of asyncio.gather: pending until
\* _conduct_individual_thinking comes back, then done with the status of
\* its response ("error": it raised and gather returned the exception)
ThinkingTask(state, status) == [state |-> state, status |-> status]

\* _conduct_individual_thinking on the store: it is given the exported
\* dictionary and the store is left as it is
individual_thinking_store(g, player) == g

\* conduct_end_of_day_thinking, lines 93-97: a task per alive player
CreateThinkingTasks ==
    /\ pc = "day_end"
    /\ AliveAgents # {}
    /\ is_running
    /\ thinking_tasks' = [p \in AliveAgents |-> ThinkingTask("pending", None)]
    /\ pc' = "thinking"
    /\ UNCHANGED <<game_state, vote_result, vote_tasks, ret, players,
                   is_running, agent_alive, mode, witch, vision_results,
                   werewolf_result, witch_result, night>>
    /\ UNCHANGED <<game_memory, thinking_result>>

\* _conduct_individual_thinking of one player comes back
ThinkingTaskDone ==
    /\ pc = "thinking"
    /\ \E p \in DOMAIN thinking_tasks :
          /\ thinking_tasks[p].state = "pending"
          /\ \E status \in {"success", "empty", "error"} :
                thinking_tasks' = [thinking_tasks EXCEPT
                                     ![p] = ThinkingTask("done", status)]
          /\ game_state' = individual_thinking_store(game_state, p)
    /\ UNCHANGED <<vote_result, vote_tasks, pc, ret, players, is_running,
                   agent_alive, mode, witch, vision_results, werewolf_result,
                   witch_result, night>>
    /\ UNCHANGED <<game_memory, thinking_result>>

\* conduct_end_of_day_thinking, lines 100-124, and _run_voting_phase, lines
\* 917-929: gather comes back once every task is done, the responses are
\* put together and the reflections that succeeded go to the agents' memory
ThinkingGatherReturns ==
    /\ pc = "thinking"
    /\ \A p \in DOMAIN thinking_tasks : thinking_tasks[p].state = "done"
    /\ LET statuses == [p \in DOMAIN thinking_tasks |-> thinking_tasks[p].status]
       IN  /\ thinking_result' = [success |-> TRUE, thinking_results |-> statuses]
           /\ game_memory' = store_reflections(game_memory, statuses,
                                 game_state.current_round, EngineClock)
    /\ pc' = "thought"
    /\ UNCHANGED <<game_state, vote_result, vote_tasks, thinking_tasks, ret,
                   players, is_running, agent_alive, mode, witch,
                   vision_results, werewolf_result, witch_result, night>>

GatherNext ==
    \/ CreateVoteTasks
    \/ VoteTaskDone
    \/ GatherReturns
    \/ ProcessResponses
    \/ ExileResolved
    \/ CreateThinkingTasks
    \/ ThinkingTaskDone
    \/ ThinkingGatherReturns

\* the event loop runs every task that can run: a pending call that is not
\* hanging comes back, and collect_votes resumes once gather can return
SpecGather ==
    /\ VoteInit
    /\ [][GatherNext]_vars
    /\ WF_vars(VoteTaskDone)
    /\ WF_vars(GatherReturns)

\* ------------------------------------------------------------------------
\* SpecTalk: discussion phases, with speakers that raise, between deaths
\* ------------------------------------------------------------------------

\* a discussion is held while the game goes on: two or more players alive
TalkRooms == {dead \in SUBSET PlayerIds : Cardinality(PlayerIds \ dead) > 1}

\* a game at the start of a discussion phase
TalkInit ==
    \E layout \in RoleLayouts, dead \in TalkRooms :
        /\ players = layout
        /\ game_state = kill_players(add_players(GameStateInit(NoRound), 1),
                                     Ascending(dead), "werewolf_kill")
        /\ ret = NoReturn
        /\ pc = "talk"
        /\ is_running = TRUE
        /\ agent_alive = [i \in PlayerIds |-> i \notin dead]
        /\ mode = "agent"
        /\ witch = WitchInit
        /\ vision_results = [i \in PlayerIds |-> None]
        /\ werewolf_result = NoResult
        /\ witch_result = NoResult
        /\ vote_result = NoVote
        /\ night = NightInit
        /\ vote_tasks = NoTasks
        /\ thinking_tasks = NoTasks
        /\ game_memory = [i \in PlayerIds |-> NewMemory]
        /\ thinking_result = NoThinking

\* room in the event log for the events of a few phases after the seats
TalkRoom == Len(game_state.game_history) < NumPlayers + MaxHistory

talkFrame == <<pc, players, is_running, mode, witch, vision_results,
               werewolf_result, witch_result, vote_result, night, vote_tasks, thinking_tasks,
               thinking_result>>

\* _run_discussion_phase, any set of the speakers raising
TalkDiscussion ==
    /\ pc = "talk"
    /\ TalkRoom
    /\ \E silent \in SUBSET AliveAgents :
          /\ game_state' = discussion_phase(game_state, AliveAgents, silent)
          /\ game_memory' = discussion_memory(game_memory,
                                speaking_order(AliveAgents), silent, 1,
                                game_state.current_round, EngineClock)
    /\ ret' = NoReturn
    /\ UNCHANGED agent_alive
    /\ UNCHANGED talkFrame

\* a player dies between two discussion phases (kill_player and player.die())
TalkDeath ==
    /\ pc = "talk"
    /\ TalkRoom
    /\ Cardinality(AliveAgents) > 2
    /\ \E id \in AliveAgents :
          /\ game_state' = kill_player(game_state, id, "vote_exile")
          /\ agent_alive' = die(agent_alive, id)
          /\ game_memory' = [game_memory EXCEPT ![id] =
                                die_memory(@, id, "vote_exile", EngineClock)]
          /\ ret' = Returned("kill_player", id, TRUE)
    /\ UNCHANGED talkFrame

\* the call export_state(hide_roles_from_ai) as it is named in ret.op
ExportCall(hide_roles_from_ai) ==
    IF hide_roles_from_ai THEN "export_state(True)" ELSE "export_state(False)"

\* the readings of the clock
Times == 1..MaxClock

\* export_state(hide_roles_from_ai), as called for every speaker and voter
TalkExport ==
    /\ pc = "talk"
    /\ \E hide \in BOOLEAN, now \in Times :
          ret' = Return(ExportCall(hide), TRUE, export_state(game_state, hide, now))
    /\ UNCHANGED <<game_state, agent_alive, game_memory>>
    /\ UNCHANGED talkFrame

TalkNext ==
    \/ TalkDiscussion
    \/ TalkDeath
    \/ TalkExport

SpecTalk == TalkInit /\ [][TalkNext]_vars

\* ------------------------------------------------------------------------
\* Properties of the ballots
\* ------------------------------------------------------------------------

\* the candidates holding the maximum count of the last ballot's tally
TopOfTally ==
    LET votes == vote_result.vote_counts
    IN  {t \in Range(votes) :
            \A u \in Range(votes) : VoteCount(votes, u) <= VoteCount(votes, t)}

\* C16: a ballot's outcome: exactly one candidate with the maximum count is
\* eliminated; several tied on a first ballot give revote_required and nobody
\* is eliminated; several tied on a re-vote give skip_elimination and nobody
\* dies.
C16_BallotOutcome ==
    pc = "voted" =>
        /\ Cardinality(TopOfTally) = 1 =>
              /\ vote_result.final_target \in TopOfTally
              /\ ~vote_result.needs_revote
              /\ vote_result.tie_action = None
              /\ AliveSet(game_state) = AliveAgents \ TopOfTally
        /\ (Cardinality(TopOfTally) > 1 /\ ~vote_result.is_revote) =>
              /\ vote_result.tie_action = "revote_required"
              /\ vote_result.needs_revote
              /\ vote_result.final_target = NoPlayer
              /\ AliveSet(game_state) = AliveAgents
        /\ (Cardinality(TopOfTally) > 1 /\ vote_result.is_revote) =>
              /\ vote_result.tie_action = "skip_elimination"
              /\ ~vote_result.needs_revote
              /\ vote_result.final_target = NoPlayer
              /\ AliveSet(game_state) = AliveAgents

C16_Witness ==
    /\ pc = "voted"
    /\ vote_result.is_revote
    /\ Cardinality(TopOfTally) > 1
    /\ vote_result.tie_action = "skip_elimination"
    /\ Len(vote_result.vote_counts) = Cardinality(AliveAgents)

\* C17: every voting phase holds at most two ballots: the first ballot, and at
\* most one re-vote, after which the phase is resolved without a further
\* ballot; if the re-vote is tied too, no player is exiled in that phase.
C17_AtMostOneRevote ==
    [][ /\ (pc = "voting" /\ pc' # "loop") =>
              /\ pc' \in {"revote", "vote_resolve"}
              /\ ~vote_result'.is_revote
        /\ pc = "revote" =>
              /\ pc' = "vote_resolve"
              /\ vote_result'.is_revote
              /\ ~vote_result'.needs_revote
        /\ pc = "vote_resolve" =>
              /\ pc' \in {"loop", "final"}
              /\ vote_result' = vote_result
        /\ ( /\ pc \in {"revote", "vote_resolve"}
             /\ vote_result'.is_revote
             /\ vote_result'.tie_action # None ) =>
              /\ AliveSet(game_state') = AliveSet(game_state)
              /\ agent_alive' = agent_alive ]_vars

C17_Witness ==
    /\ pc = "loop"
    /\ game_state.current_phase = "voting"
    /\ vote_result.is_revote
    /\ vote_result.tie_action = "skip_elimination"
    /\ Len(vote_result.tied_players) > 1
    /\ game_state.game_winner = None

C19_Counterexample ==
    pc = "voted" =>
        /\ Len(vote_result.vote_counts) = Cardinality(AliveAgents)
        /\ Len(game_state.voting_results.vote_counts)
              = game_state.voting_results.total_voters

\* C20 as stated: vote collection always completes; if one voter's vote call
\* never returns, the collection still ends and the voting phase proceeds.
\* collect_votes awaits asyncio.gather without a timeout.
C20_Counterexample == (pc = "gather") ~> (pc = "responses")

\* the collection does complete when every call comes back
GatherCompletesWithoutHang ==
    (pc = "gather" /\ \A v \in DOMAIN vote_tasks :
                         vote_tasks[v].state # "never_returns")
        ~> (pc = "responses")

\* ------------------------------------------------------------------------
\* Properties of the discussion
\* ------------------------------------------------------------------------

\* the speakers of the speech events a step appends, in the order of the log
NewSpeakers ==
    [k \in 1..(Len(game_state'.game_history) - Len(game_state.game_history)) |->
        game_state'.game_history[Len(game_state.game_history) + k].player_id]

\* C21: in every discussion phase the speeches are made in strictly ascending
\* player id order over the players alive at the start of the phase.
C21_SpeechOrder ==
    [][ (pc \in {"talk", "discussion"} /\ Appends({"speech"})) =>
          ( /\ \A i \in NewEventIndexes :
                  game_state'.game_history[i].event_type = "speech"
            /\ \A k \in DOMAIN NewSpeakers : NewSpeakers[k] \in AliveAgents
            /\ \A k \in DOMAIN NewSpeakers : \A l \in DOMAIN NewSpeakers :
                  (k < l) => (NewSpeakers[k] < NewSpeakers[l]) ) ]_vars

C21_Witness ==
    /\ pc = "talk"
    /\ Len(game_state.game_history) >= NumPlayers + 3
    /\ \A i \in 1..3 :
          /\ game_state.game_history[NumPlayers + i].event_type = "speech"
          /\ game_state.game_history[NumPlayers + i].player_id = i

\* ------------------------------------------------------------------------
\* Properties of the projection
\* ------------------------------------------------------------------------

\* the player records of a snapshot
SnapshotPlayers(snapshot) ==
    Range(snapshot.players) \cup Range(snapshot.alive_players)
        \cup Range(snapshot.dead_players)

\* C22: a role-hidden projection (hide_roles_from_ai = True) has no role field
\* in any of its player records, in any reachable state.
C22_HiddenProjectionHasNoRole ==
    (ret.op = ExportCall(TRUE)) =>
        /\ Len(ret.value.players) = Len(game_state.players)
        /\ \A p \in SnapshotPlayers(ret.value) : "role" \notin DOMAIN p
        /\ \A f \in DOMAIN ret.value :
              f \notin {"game_history", "night_actions", "seer_results"}

C22_Witness ==
    /\ ret.op = ExportCall(TRUE)
    /\ Len(ret.value.dead_players) > 0
    /\ Len(ret.value.alive_players) > 1
    /\ Len(ret.value.recent_speeches) > 0

\* a snapshot without the time it was taken at
Content(snapshot) ==
    [f \in DOMAIN snapshot \ {"timestamp"} |-> snapshot[f]]

\* two role-hidden projections in a row of a state that did not change
SecondProjection ==
    /\ ret.op = ExportCall(TRUE)
    /\ ret'.op = ExportCall(TRUE)
    /\ game_state' = game_state

\* C23 as stated: two calls of the role-hidden projection on an unchanged
\* state return equal snapshots.
C23_Counterexample ==
    [][ SecondProjection => (ret'.value = ret.value) ]_vars

\* C23: two calls of the role-hidden projection on an unchanged state return
\* snapshots that are equal in every field but the timestamp, which is the
\* time of the call.
C23_ProjectionEqualButTimestamp ==
    [][ SecondProjection => (Content(ret'.value) = Content(ret.value)) ]_vars

C23_Witness ==
    /\ ret.op = ExportCall(TRUE)
    /\ ret.value.timestamp = MaxClock
    /\ Len(ret.value.recent_speeches) > 1
    /\ Len(ret.value.dead_players) > 0

\* ------------------------------------------------------------------------
\* SpecLate: the store of a seated game from the first vote on, over the
\* change of round
\* ------------------------------------------------------------------------

\* advance_phase called n times
RECURSIVE advance_phases(_, _)
advance_phases(g, n) ==
    IF n = 0 THEN g ELSE advance_phases(advance_phase(g), n - 1)

\* the store of a game in the voting phase of round 1, nobody dead yet
LateInit ==
    /\ \E layout \in RoleLayouts :
          /\ players = layout
          /\ game_state = advance_phases(add_players(GameStateInit(NoRound), 1), 4)
    /\ ret = NoReturn
    /\ pc = "late"
    /\ is_running = TRUE
    /\ agent_alive = [i \in PlayerIds |-> TRUE]
    /\ mode = "agent"
    /\ witch = WitchInit
    /\ vision_results = [i \in PlayerIds |-> None]
    /\ werewolf_result = NoResult
    /\ witch_result = NoResult
    /\ vote_result = NoVote
    /\ night = NightInit
    /\ vote_tasks = NoTasks
    /\ thinking_tasks = NoTasks
    /\ game_memory = [i \in PlayerIds |-> NewMemory]
    /\ thinking_result = NoThinking

LateNext == KillPlayer \/ RevivePlayer \/ AdvancePhase

SpecLate == LateInit /\ [][LateNext]_vars

\* ------------------------------------------------------------------------
\* Properties of kill_player and revive_player
\* ------------------------------------------------------------------------

\* the step is the call op(player_id, ...) of the store
StoreCall(op) == ret'.op = op /\ ret' # ret

\* the fields of a player that a death sets
DeathFields(g, id) ==
    [ alive       |-> id \in Range(g.alive_players),
      dead        |-> id \in Range(g.dead_players),
      death_round |-> IF KnownPlayer(g, id) THEN g.players[id].death_round
                      ELSE NoRound,
      death_cause |-> IF KnownPlayer(g, id) THEN g.players[id].death_cause
                      ELSE None ]

\* C24: kill_player on a player who is not alive (dead already, or an id the
\* store does not know) returns False and leaves the alive list, the dead
\* list, the player's death_round and death_cause and the event log as they
\* were.
C24_KillOfNonAliveRejected ==
    [][ (StoreCall("kill_player")
            /\ ret'.player_id \notin Range(game_state.alive_players)) =>
          ( /\ ~ret'.ok
            /\ game_state'.alive_players = game_state.alive_players
            /\ game_state'.dead_players = game_state.dead_players
            /\ DeathFields(game_state', ret'.player_id)
                  = DeathFields(game_state, ret'.player_id)
            /\ game_state'.game_history = game_state.game_history ) ]_vars

\* a kill of a dead player was rejected, and so was one of an unknown id
C24_Witness ==
    /\ ret.op = "kill_player"
    /\ ~ret.ok
    /\ ret.player_id \in Range(game_state.dead_players)
    /\ game_state.players[ret.player_id].death_cause = "werewolf_kill"
    /\ Len(game_state.players) > 1

\* C25: revive_player(id) succeeds if and only if the player is in the dead
\* list with death_round = current_round; it then is alive again, and in
\* every other case the call returns False and changes nothing.
C25_ReviveOnlySameRound ==
    [][ StoreCall("revive_player") =>
          LET id    == ret'.player_id
              legal == /\ id \in Range(game_state.dead_players)
                       /\ game_state.players[id].death_round
                            = game_state.current_round
          IN  /\ ret'.ok <=> legal
              /\ legal => /\ id \in Range(game_state'.alive_players)
                          /\ id \notin Range(game_state'.dead_players)
                          /\ game_state'.players[id].is_alive
              /\ ~legal => game_state' = game_state ]_vars

\* a revive of a player who died in an earlier round was rejected
C25_Witness ==
    /\ ret.op = "revive_player"
    /\ ~ret.ok
    /\ ret.player_id \in Range(game_state.dead_players)
    /\ game_state.players[ret.player_id].death_round < game_state.current_round

\* C26: for a live player, kill_player(id, cause) followed by
\* revive_player(id) in the same round gives alive and dead membership,
\* death_round and death_cause the values they had before the kill.
C26_KillReviveRestores ==
    \A id \in Range(game_state.alive_players) : \A cause \in Causes :
        LET killed  == kill_player(game_state, id, cause)
            revived == revive_player(killed, id)
        IN  /\ kill_player_ok(game_state, id)
            /\ revive_player_ok(killed, id)
            /\ DeathFields(killed, id) # DeathFields(game_state, id)
            /\ DeathFields(revived, id) = DeathFields(game_state, id)

\* a player killed and revived in round 2, the others as they were
C26_Witness ==
    /\ ret.op = "revive_player"
    /\ ret.ok
    /\ game_state.current_round > 1
    /\ Len(game_state.game_history) > FirstVoteEvents + 2
    /\ LET n == Len(game_state.game_history)
       IN  /\ game_state.game_history[n].event_type = "player_revived"
           /\ game_state.game_history[n - 1].event_type = "player_death"
           /\ game_state.game_history[n - 1].player_id = ret.player_id
           /\ game_state.game_history[n - 1].round = game_state.current_round
    /\ DeathFields(game_state, ret.player_id)
         = [alive |-> TRUE, dead |-> FALSE, death_round |-> NoRound,
            death_cause |-> None]
    /\ game_state.dead_players # <<>>

\* ------------------------------------------------------------------------
\* SpecMemory: the memory of an agent under any sequence of writes
\* ------------------------------------------------------------------------

\* the event types update_memory is called with in the repository: the
\* streams, and the names that are not a key of game_memory
EventTypes == Streams \cup {"observation", "vote", "self_reflection",
                            "night_deaths"}

\* the agent whose memory is written (the agents' memories are apart)
MemoryAgents == {1}

\* the call agent.update_memory(event_type, ...), which returns nothing
Updated(agent, event_type) ==
    [op |-> "update_memory", ok |-> TRUE, value |-> event_type,
     player_id |-> agent]

MemoryInit ==
    /\ game_state = GameStateInit(NoRound)
    /\ ret = NoReturn
    /\ pc = "memory"
    /\ players = [i \in PlayerIds |-> "villager"]
    /\ is_running = FALSE
    /\ agent_alive = [i \in PlayerIds |-> TRUE]
    /\ mode = "agent"
    /\ witch = WitchInit
    /\ vision_results = [i \in PlayerIds |-> None]
    /\ werewolf_result = NoResult
    /\ witch_result = NoResult
    /\ vote_result = NoVote
    /\ night = NightInit
    /\ vote_tasks = NoTasks
    /\ thinking_tasks = NoTasks
    /\ game_memory = [i \in PlayerIds |-> NewMemory]
    /\ thinking_result = NoThinking

\* the serial number the writer gave the last entry of a stream (as the
\* content i of test_memory_limits), 0 for an empty stream
LastSerial(stream) == IF stream = <<>> THEN 0 ELSE stream[Len(stream)].detail

\* the entries written so far to the streams of one agent
RECURSIVE WritesTo(_, _)
WritesTo(memory, streams) ==
    IF streams = {} THEN 0
    ELSE LET s == CHOOSE x \in streams : TRUE
         IN  LastSerial(memory[s]) + WritesTo(memory, streams \ {s})

\* the entries written so far to the streams of the agents
RECURSIVE TotalWrites(_)
TotalWrites(agents) ==
    IF agents = {} THEN 0
    ELSE LET a == CHOOSE x \in agents : TRUE
         IN  WritesTo(game_memory[a], Streams) + TotalWrites(agents \ {a})

\* the latest reading of the clock in the memory of the agents
ClockIsAt(now) ==
    \A a \in PlayerIds : \A s \in Streams : \A k \in DOMAIN game_memory[a][s] :
        game_memory[a][s][k].timestamp <= now

memoryFrame == <<game_state, pc, players, is_running, agent_alive, mode,
                 witch, vision_results, werewolf_result, witch_result,
                 vote_result, night, vote_tasks, thinking_tasks, thinking_result>>

\* agent.update_memory(event_type, event_data) for a key of game_memory
UpdateMemory ==
    /\ pc = "memory"
    /\ TotalWrites(PlayerIds) < MaxHistory
    /\ \E agent \in MemoryAgents, event_type \in Streams, now \in Times :
          /\ ClockIsAt(now)
          /\ ret' = Updated(agent, event_type)
          /\ game_memory' = [game_memory EXCEPT ![agent] =
                update_memory(@, event_type,
                    Memo(event_type, agent, NoRound,
                         LastSerial(game_memory[agent][event_type]) + 1), now)]
    /\ UNCHANGED memoryFrame

\* agent.update_memory(event_type, event_data) for a name that is not a key
UpdateNoStream ==
    /\ pc = "memory"
    /\ \E agent \in MemoryAgents, event_type \in EventTypes \ Streams,
          now \in Times :
          /\ game_memory' = [game_memory EXCEPT ![agent] =
                update_memory(@, event_type, Memo(event_type, agent, NoRound, 1),
                              now)]
          /\ ret' = Updated(agent, event_type)
    /\ UNCHANGED memoryFrame

MemoryNext == UpdateMemory \/ UpdateNoStream

SpecMemory == MemoryInit /\ [][MemoryNext]_vars

\* ------------------------------------------------------------------------
\* Properties of the agent memory
\* ------------------------------------------------------------------------

\* a stream after a write is the end of the stream before it with the new
\* entry appended: the entries dropped are the oldest
OldestDropped(old, new, cap) ==
    /\ new # <<>>
    /\ new[Len(new)].detail = LastSerial(old) + 1
    /\ LET appended == Append(old, new[Len(new)])
       IN  /\ Len(new) = IF Len(appended) > cap THEN cap ELSE Len(appended)
           /\ new = SubSeq(appended, Len(appended) - Len(new) + 1, Len(appended))

\* the step is a call of update_memory for a stream
MemoryWrite ==
    /\ ret'.op = "update_memory"
    /\ ret'.value \in Streams
    /\ ret' # ret \/ game_memory' # game_memory

\* C27: after any sequence of memory writes every stream of an agent holds at
\* most its cap (night_discussions and night_thinking their own limits, the
\* other streams max_memory_events), and on overflow it is the oldest entries
\* that are dropped.
C27_MemoryCapped ==
    /\ [](\A a \in PlayerIds : \A s \in Streams :
            Len(game_memory[a][s]) <= memory_limit(s))
    /\ [][ MemoryWrite =>
             \A a \in PlayerIds : \A s \in Streams :
                IF a = ret'.player_id /\ s = ret'.value
                THEN OldestDropped(game_memory[a][s], game_memory'[a][s],
                                   memory_limit(s))
                ELSE game_memory'[a][s] = game_memory[a][s] ]_vars

\* the speeches have overflowed (the stream is full and its first entry is
\* gone) in an agent who has a night thought as well
C27_Witness ==
    /\ pc = "memory"
    /\ \E a \in PlayerIds :
          /\ Len(game_memory[a]["speeches"]) = max_memory_events
          /\ game_memory[a]["speeches"][1].detail > 1
          /\ game_memory[a]["night_thinking"] # <<>>

\* ------------------------------------------------------------------------
\* Properties of the deaths, the last words and the reflections in the
\* agents' memory
\* ------------------------------------------------------------------------

\* the observations of an agent hold a record of the death of a player
HoldsDeathOf(memory, id) ==
    \E k \in DOMAIN memory["observations"] :
        /\ memory["observations"][k].type = "death"
        /\ memory["observations"][k].player_id = id

\* C28: after any death applied through the state store (werewolf kill,
\* witch poison or exile), the observations stream of every other agent
\* holds a record of that death; looked at when the phase of the death is
\* over.
C28_Counterexample ==
    (pc \in {"loop", "final", "done"}) =>
        \A d \in DeadSet(game_state) : \A p \in PlayerIds \ {d} :
            HoldsDeathOf(game_memory[p], d)

\* a stream of an agent holds the reflection of a round
HoldsReflection(memory, stream, round_num) ==
    /\ stream \in DOMAIN memory
    /\ \E k \in DOMAIN memory[stream] :
          /\ memory[stream][k].type = "day_end"
          /\ memory[stream][k].round = round_num

\* C29: every successful day-end reflection is stored in the self_reflection
\* or night_thinking stream of the agent that reflected, tagged with the
\* round and phase = day_end, and in no other agent's memory.
C29_Counterexample ==
    [][ (pc = "vote_resolve" /\ thinking_result'.success) =>
          \A p \in DOMAIN thinking_result'.thinking_results :
              (thinking_result'.thinking_results[p] = "success") =>
                  \E stream \in {"self_reflection", "night_thinking"} :
                      HoldsReflection(game_memory'[p], stream,
                                      game_state.current_round) ]_vars

\* the speeches of an agent hold the last words of a player
HoldsLastWords(memory, id) ==
    \E k \in DOMAIN memory["speeches"] :
        /\ memory["speeches"][k].detail = "exile_last_words"
        /\ memory["speeches"][k].player_id = id

\* the step in which the victory condition is evaluated after an exile and
\* gives a winner
ExileSetsWinner ==
    /\ pc = "vote_resolve"
    /\ HasExile(game_state, vote_result)
    /\ game_state.game_winner = None
    /\ game_state'.game_winner # None

RECURSIVE memory_when_asked(_, _, _, _, _, _, _)
memory_when_asked(memories, order, silent, i, k, round_num, now) ==
    LET player == order[i]
        fed    == [memories EXCEPT ![player] =
                     update_memory_each(@, "speeches",
                         speeches_before(memories, order, i, round_num), now)]
        heard  == IF player \in silent THEN fed
                  ELSE hear_speech(fed, Range(order), player, round_num,
                                   "discussion", now)
    IN  IF i = k THEN fed[player]
        ELSE memory_when_asked(heard, order, silent, i + 1, k, round_num, now)

\* the speeches of an agent hold a speech of the round by a player
HoldsSpeechOf(memory, id, round_num) ==
    \E n \in DOMAIN memory["speeches"] :
        /\ memory["speeches"][n].type = "speech"
        /\ memory["speeches"][n].player_id = id
        /\ memory["speeches"][n].round = round_num

\* the speaker at position k is asked with the speeches of all who spoke
\* before it in the phase
HeardAllBefore(memories, order, silent, k, round_num) ==
    \A j \in 1..(k - 1) :
        (order[j] \notin silent) =>
            HoldsSpeechOf(memory_when_asked(memories, order, silent, 1, k,
                                            round_num, EngineClock),
                          order[j], round_num)

\* the step is the first discussion phase of a game in which the speakers
\* of silent raise
FirstDiscussion(silent) ==
    /\ pc = "talk"
    /\ game_memory = [i \in PlayerIds |-> NewMemory]
    /\ silent \subseteq AliveAgents
    /\ game_state' = discussion_phase(game_state, AliveAgents, silent)
    /\ game_memory' = discussion_memory(game_memory, speaking_order(AliveAgents),
                                        silent, 1, game_state.current_round,
                                        EngineClock)

\* C31: at the moment a player is asked to speak in a discussion phase, its
\* speeches memory holds the current-round speech of every player who spoke
\* earlier in that phase, whatever the number of players and the memory cap.
C31_Counterexample ==
    [][ \A silent \in SUBSET PlayerIds :
          FirstDiscussion(silent) =>
             \A k \in 1..Cardinality(AliveAgents) :
                HeardAllBefore(game_memory, speaking_order(AliveAgents), silent,
                               k, game_state.current_round) ]_vars

\* ------------------------------------------------------------------------
\* Properties of self-votes and of substituted votes
\* ------------------------------------------------------------------------

\* collect_votes, lines 63-111: the vote_details of a ballot, an entry for
\* every counted vote with its voter, the target counted and is_fallback
RECURSIVE vote_details(_, _, _)
vote_details(voters, candidates, ballot) ==
    IF voters = <<>> THEN <<>>
    ELSE LET v        == Head(voters)
             response == collect_single_vote(ballot[v])
             valid    == response = "pair" /\ vote_is_valid(ballot[v], candidates)
             detail   == IF response = "exception"
                         THEN <<[voter_id |-> v, target_id |-> ballot[v].random,
                                 is_fallback |-> TRUE]>>
                         ELSE IF response = None THEN <<>>
                         ELSE IF valid
                         THEN <<[voter_id |-> v, target_id |-> ballot[v].returned,
                                 is_fallback |-> FALSE]>>
                         ELSE <<[voter_id |-> v, target_id |-> ballot[v].random,
                                 is_fallback |-> TRUE]>>
         IN  detail \o vote_details(Tail(voters), candidates, ballot)

\* the step is the first ballot of a voting phase, held with the vote calls
\* of ballot
FirstBallotWith(ballot) ==
    /\ pc = "ballot"
    /\ ballot \in VoteCalls(AliveAgents, AliveAgents)
    /\ game_state' = conduct_full_vote(game_state, Ascending(AliveAgents),
                         Ascending(AliveAgents), ballot, FALSE).g
    /\ vote_result' = conduct_full_vote(game_state, Ascending(AliveAgents),
                          Ascending(AliveAgents), ballot, FALSE).result

\* the step appends a vote event of the voter for the target
LogsVote(voter, target) ==
    \E i \in NewEventIndexes :
        /\ game_state'.game_history[i].event_type = "vote"
        /\ game_state'.game_history[i].player_id = voter
        /\ game_state'.game_history[i].target_id = target

\* C32: no vote counted in a tally or recorded in the state store has the
\* voter itself as target; a self-vote is replaced by a legal default.
C32_Counterexample ==
    [][ \A ballot \in VoteCalls(AliveAgents, AliveAgents) :
          FirstBallotWith(ballot) =>
             /\ \A v \in AliveAgents : ~LogsVote(v, v)
             /\ LET details == vote_details(Ascending(AliveAgents),
                                            Ascending(AliveAgents), ballot)
                IN  \A n \in DOMAIN details :
                       details[n].target_id # details[n].voter_id ]_vars

\* C33: every vote the engine substituted for a failed or illegal vote
\* result appears in the event log as a vote event marked as a fallback.
\* (The events of the log have no such mark; the formula asks only for a
\* vote event of the voter for the substituted target.)
C33_Counterexample ==
    [][ \A ballot \in VoteCalls(AliveAgents, AliveAgents) :
          FirstBallotWith(ballot) =>
             LET details == vote_details(Ascending(AliveAgents),
                                         Ascending(AliveAgents), ballot)
             IN  \A n \in DOMAIN details :
                    details[n].is_fallback =>
                        LogsVote(details[n].voter_id, details[n].target_id) ]_vars

\* ------------------------------------------------------------------------
\* Properties of a speaker whose make_speech raises
\* ------------------------------------------------------------------------

\* the step is a discussion phase in which the speakers of silent raise
DiscussionWith(silent) ==
    /\ pc = "talk"
    /\ silent \subseteq AliveAgents
    /\ game_state' = discussion_phase(game_state, AliveAgents, silent)
    /\ game_memory' = discussion_memory(game_memory, speaking_order(AliveAgents),
                                        silent, 1, game_state.current_round,
                                        EngineClock)

\* the step appends a speech event of the player
LogsSpeech(player) ==
    \E i \in NewEventIndexes :
        /\ game_state'.game_history[i].event_type = "speech"
        /\ game_state'.game_history[i].player_id = player

\* the last entry of the speeches of an agent is a speech of the player
HeardLast(memory, player) ==
    /\ memory["speeches"] # <<>>
    /\ memory["speeches"][Len(memory["speeches"])].player_id = player

\* C34: if the make_speech call of a player raises during the discussion,
\* the engine puts a fixed default speech in its place, stores it and
\* mirrors it like any other speech, and goes on with the next speaker: so
\* every alive player has a speech event in the log after the phase, and
\* the other alive players have heard the last speaker of the order.
C34_Counterexample ==
    [][ \A silent \in SUBSET PlayerIds :
          (DiscussionWith(silent) /\ silent # {}) =>
             /\ \A p \in AliveAgents : LogsSpeech(p)
             /\ LET order == speaking_order(AliveAgents)
                    last  == order[Len(order)]
                IN  \A q \in AliveAgents \ {last} :
                       HeardLast(game_memory'[q], last) ]_vars

\* ------------------------------------------------------------------------
\* Properties of the target of an accepted save
\* ------------------------------------------------------------------------

\* C35: every save of the witch the engine accepts targets exactly the
\* player the werewolves chose to kill that night.
C35_Counterexample ==
    (pc = "night_resolve" /\ witch_result.success /\ witch_result.action = "save")
        => /\ werewolf_result.success
           /\ witch_result.target = werewolf_result.target

\* ------------------------------------------------------------------------
\* Properties of the store while vote calls or reflections are in flight
\* ------------------------------------------------------------------------

\* a vote call or a reflection handed to asyncio.gather has not come back
CallsInFlight ==
    \/ \E v \in DOMAIN vote_tasks : vote_tasks[v].state # "done"
    \/ \E p \in DOMAIN thinking_tasks : thinking_tasks[p].state # "done"

\* the step writes what a ballot writes to the store: vote events and the
\* entry of voting_results
BallotWrite ==
    \/ Appends({"vote", "tie_break", "vote_execution"})
    \/ game_state'.voting_results # game_state.voting_results

\* C36: while concurrent vote calls or concurrent reflection calls are in
\* flight the state store is not mutated; every store write that belongs
\* to a ballot or a reflection batch is made by the engine after the join
\* on all the calls.
C36_StoreQuietInFlight ==
    [][ /\ CallsInFlight => game_state' = game_state
        /\ BallotWrite =>
              /\ pc = "responses"
              /\ vote_tasks # NoTasks
              /\ \A v \in DOMAIN vote_tasks : vote_tasks[v].state = "done"
        /\ pc \in {"gather", "thinking"} => game_state' = game_state ]_vars

\* the votes of a ballot were recorded after its join, and the reflections
\* of the day have all come back, one of them with an exception
C36_Witness ==
    /\ pc = "thought"
    /\ thinking_result.success
    /\ \E p \in DOMAIN thinking_tasks : thinking_tasks[p].status = "error"
    /\ \E p \in DOMAIN thinking_tasks : thinking_tasks[p].status = "success"
    /\ \E i \in 1..Len(game_state.game_history) :
          game_state.game_history[i].event_type = "vote"
    /\ \E i \in 1..Len(game_state.game_history) :
          game_state.game_history[i].event_type = "vote_execution"

\* ------------------------------------------------------------------------
\* Properties of the role-hidden projection across role assignments
\* ------------------------------------------------------------------------

\* the store of a game in which the players hold the given roles and
\* everything else is as in g
with_roles(g, roles) ==
    [g EXCEPT !.players = [k \in DOMAIN @ |-> [@[k] EXCEPT !.role = roles[k]]]]

\* the roles of the seats with those of the players a and b exchanged
exchanged(roles, a, b) ==
    [i \in DOMAIN roles |->
        IF i = a THEN roles[b] ELSE IF i = b THEN roles[a] ELSE roles[i]]

\* C37: a role-hidden projection carries no information derived from the
\* roles: two states that differ only in which players hold which roles
\* give the same role-hidden projection.
C37_Counterexample ==
    (ret.op = ExportCall(TRUE)) =>
        \A a, b \in PlayerIds :
            export_state(with_roles(game_state, exchanged(players, a, b)),
                         TRUE, ret.value.timestamp) = ret.value

\* ------------------------------------------------------------------------
\* Properties of the agents' is_alive and the liveness of the store
\* ------------------------------------------------------------------------

\* start_game stands between two phases: before a night, a day, a
\* discussion or a voting phase begins, and when the loop is left
PhaseBoundary == pc \in {"loop", "night_kill", "day", "discussion", "voting",
                         "final", "done"}

\* C38: at every phase boundary the is_alive flag of each agent equals the
\* liveness of its player in the state store.
C38_AgentsAgreeWithStore ==
    PhaseBoundary =>
        /\ AliveAgents = AliveSet(game_state)
        /\ \A i \in PlayerIds :
              agent_alive[i] = game_state.players[i].is_alive

\* a game goes on after an exile: the exiled player is dead in the store and
\* its agent is marked dead
C38_Witness ==
    /\ pc = "loop"
    /\ game_state.game_winner = None
    /\ \E d \in DeadSet(game_state) :
          /\ game_state.players[d].death_cause = "vote_exile"
          /\ ~agent_alive[d]
    /\ \E a \in AliveAgents : game_state.players[a].is_alive

\* ------------------------------------------------------------------------
\* Properties of the dead
\* ------------------------------------------------------------------------

\* the events by which a player acts in a phase: a speech of the
\* discussion or of a tie defence, a counted vote, a night action
ActingEvents == {"speech", "vote", "night_action"}

FirstDeath ==
    CHOOSE i \in 1..Len(game_state.game_history) :
        /\ game_state.game_history[i].event_type = "player_death"
        /\ \A j \in 1..(i - 1) :
              game_state.game_history[j].event_type # "player_death"

RoundWithoutProgress ==
    /\ pc = "loop"
    /\ Len(vote_result.vote_counts) = Cardinality(AliveAgents)
    /\ is_running
    /\ ~has_round_limit(game_state)
    /\ game_state.current_phase = "voting"
    /\ game_state.game_winner = None
    /\ is_game_over(game_state) = None
    /\ AliveAgents = AliveSet(game_state)
    /\ \A d \in DeadSet(game_state) :
          game_state.players[d].death_round # game_state.current_round
    /\ witch.has_antidote
    /\ witch.has_poison

\* C40: with max_rounds absent and every agent call returning, every game
\* ends with a winner set: there is no infinite sequence of rounds, whatever
\* the agents choose.  A round as in RoundWithoutProgress leaves the engine
\* where the round began but for the round number, the log and what the
\* agents remember, and the choices of the agents that led through it lead
\* through the next round in the same way, and so for ever: the claim says
\* that no game has such a round.
C40_Counterexample == ~RoundWithoutProgress

====
